---- MODULE Spec2Model ----
(***************************************************************************)
(* Model of the budget application: the field validators of the expense    *)
(* and income features, the merged transaction list of useTransactionList  *)
(* with its filters and summaries, the expense/income list hooks, and the  *)
(* expense storage service with its pending-sync queue.                    *)
(***************************************************************************)
EXTENDS Integers, Sequences, FiniteSets, TLC

VARIABLES
  call,            \* validators: the validator call drawn as input
  res,             \* validators: its result (not done before the call is made)
  incomeHook,      \* useIncomeList state: items, totalCount, hasMore, currentPage, error
  expenseHook,     \* useExpenseList state, the same fields
  cachedExpenses,  \* AsyncStorage 'cached_expenses' (data)
  filters,         \* the filters of useTransactionList, or of useExpenseList alone
  searchQuery,     \* useTransactionList searchQuery
  env,             \* the device: utcOffset (hours), and the year and month of now
  remote,          \* the Firestore collection 'expenses': id -> document
  pendingSync,     \* AsyncStorage 'pending_sync_expenses'
  tasks,           \* the calls of the storage service in flight
  auth,            \* firebase auth: currentUser
  form,            \* useExpenseForm state and the position of submitForm
  expenseActions,  \* useExpenseActions state and the position of its call
  categoryHook,    \* useCategories state: categories, error
  remoteCategories,\* the Firestore collection 'categories': id -> document
  cachedCategories,\* AsyncStorage 'cached_categories' (data)
  categoryCalls,   \* the createCategory/updateCategory/deleteCategory calls in flight
  syncCall,        \* the syncWithFirestore call and its position
  receiptStore,    \* Firebase storage: the ids of the receipt blobs
  serviceCall,     \* the last call of expenseService and what it returned
  fetches,         \* useExpenseList: the calls of its effects awaiting an answer
  cachedFilters,   \* AsyncStorage 'cached_expense_filters'
  deletion         \* useExpenseActions: deleteExpense/bulkDeleteExpenses state and position

validateVars == <<call, res>>
listVars == <<incomeHook, expenseHook, cachedExpenses>>
txnVars == <<filters, searchQuery, env>>
storageVars == <<remote, pendingSync, tasks>>
formVars == <<auth, form, expenseActions>>
categoryVars == <<categoryHook, remoteCategories, cachedCategories, categoryCalls>>
syncVars == <<syncCall>>
serviceVars == <<receiptStore, serviceCall>>
fetchVars == <<fetches, cachedFilters>>
hookVars == <<fetches, cachedFilters, deletion>>
vars ==
  <<call, res, incomeHook, expenseHook, cachedExpenses, filters, searchQuery, env,
    remote, pendingSync, tasks, auth, form, expenseActions,
    categoryHook, remoteCategories, cachedCategories, categoryCalls, syncCall,
    receiptStore, serviceCall, fetches, cachedFilters, deletion>>

(***************************************************************************)
(* Strings are sequences of one-character strings.                         *)
(***************************************************************************)
Letters == {"a", "A", "B"}
DigitChars == {"0", "1", "2", "3", "4", "5", "6", "7", "8", "9"}
\* what the regular expression class \s matches: the space and the other
\* white space characters (the tab stands for them)
WhiteSpace == {" ", "\t"}

RECURSIVE Repeat(_, _)
Repeat(c, n) == IF n <= 0 THEN <<>> ELSE <<c>> \o Repeat(c, n - 1)

\* String.prototype.trim
RECURSIVE TrimLeft(_)
TrimLeft(s) ==
  IF s # <<>> /\ Head(s) \in WhiteSpace THEN TrimLeft(Tail(s)) ELSE s

RECURSIVE TrimRight(_)
TrimRight(s) ==
  IF s # <<>> /\ s[Len(s)] \in WhiteSpace
    THEN TrimRight(SubSeq(s, 1, Len(s) - 1))
    ELSE s

Trim(s) == TrimRight(TrimLeft(s))

\* an optional property: absent (undefined), or present with a value
None == [some |-> FALSE]
Some(v) == [some |-> TRUE, v |-> v]

\* TransactionFilters {} : no property set
NoFilters ==
  [searchQuery |-> None, type |-> None, categories |-> None, dateFrom |-> None,
   dateTo |-> None, amountMin |-> None, amountMax |-> None]

\* the state of a list hook after construction
InitialHook ==
  [items |-> <<>>, totalCount |-> 0, hasMore |-> FALSE, currentPage |-> 1,
   error |-> "null"]

\* the ids of the expense documents the storage service is called with
StorageIds == {1, 2}

\* an empty collection, and a service with no call in flight
EmptyRemote == [id \in StorageIds |-> None]
IdleTask ==
  [op |-> "none", expense |-> [id |-> 0], pc |-> "idle", read |-> <<>>,
   thrown |-> "none", remoteFailed |-> FALSE]

\* useExpenseForm after construction for a new expense: empty fields,
\* category 'Other', today's date
Today == [kind |-> "iso", y |-> 2024, m |-> 1, d |-> 15]
NoDataYet == [label |-> <<>>]
NewForm ==
  [initialExpense |-> None,
   amount |-> [kind |-> "str", text |-> <<>>, value |-> [kind |-> "nan"]],
   label |-> <<>>, description |-> <<>>, category |-> "Other", date |-> Today,
   receipts |-> <<>>, fieldErrors |-> {}, general |-> "none", isValid |-> FALSE,
   isSubmitting |-> FALSE, pc |-> "idle", data |-> NoDataYet]

\* useExpenseActions after construction
IdleActions == [pc |-> "idle", data |-> NoDataYet, id |-> 0, error |-> "null"]

\* the variables of the form and of the actions hook, with nobody signed in
FormAtRest ==
  /\ auth = None
  /\ form = NewForm
  /\ expenseActions = IdleActions

\* the ids of the category documents
MaxCategories == 3
CategoryIds == 1..MaxCategories

\* useCategories after construction, an empty collection, no call in flight
InitialCategoryHook == [categories |-> <<>>, error |-> "null"]
NoCategories == [id \in CategoryIds |-> None]
IdleCategoryCall == [op |-> "none", pc |-> "idle"]

\* no call of expenseService yet, no receipt uploaded
NoServiceCall == [op |-> "none", id |-> 0, ok |-> FALSE, returned |-> {}]
ServiceAtRest == receiptStore = {} /\ serviceCall = NoServiceCall

\* useExpenseActions with no delete call made, no loadExpenses call in flight
\* (ids, k: the ids of the call and the position of its loop; attempts: the
\* expenseService.deleteExpense calls made with their outcome; deleted and
\* reported: the onExpenseDeleted and onError calls made)
IdleDeletion ==
  [op |-> "none", pc |-> "idle", ids |-> <<>>, k |-> 0, success |-> <<>>, failed |-> <<>>,
   isDeleting |-> 0, isPerformingBulkAction |-> FALSE, error |-> "null",
   attempts |-> <<>>, deleted |-> <<>>, reported |-> <<>>, returned |-> "none"]
HooksAtRest == fetches = {} /\ cachedFilters = [some |-> FALSE] /\ deletion = IdleDeletion

\* no syncWithFirestore call yet
IdleSync == [pc |-> "idle", pending |-> <<>>, k |-> 0, saved |-> <<>>, read |-> <<>>]

\* the variables of the category hook at rest
CategoriesAtRest ==
  /\ categoryHook = InitialCategoryHook
  /\ remoteCategories = NoCategories
  /\ cachedCategories = <<>>
  /\ categoryCalls = <<IdleCategoryCall>>

\* a device in UTC in January 2024 (months count from 0)
DefaultEnv == [utcOffset |-> 0, year |-> 2024, month |-> 0]

(***************************************************************************)
(* JavaScript numbers.  A finite non-zero number is [sign, m, e]: the      *)
(* value sign * m * 10^e, where m are the digits of the shortest decimal   *)
(* that denotes the number (m > 0, m not divisible by 10).  Zero, NaN and  *)
(* Infinity are records of their own kind.                                 *)
(***************************************************************************)
Zero == [kind |-> "zero"]
NaN == [kind |-> "nan"]
Infinity == [kind |-> "inf"]
Num(sign, m, e) == [kind |-> "num", sign |-> sign, m |-> m, e |-> e]

IsNumber(x) == x.kind \in {"zero", "nan", "inf", "num"}
IsNaN(x) == x.kind = "nan"
IsFinite(x) == x.kind \in {"zero", "num"}
IsNegative(x) == x.kind = "num" /\ x.sign = -1
IsPositive(x) == (x.kind = "num" /\ x.sign = 1) \/ x.kind = "inf"

RECURSIVE DigitsOf(_)
DigitsOf(n) ==
  IF n < 10 THEN <<n>> ELSE DigitsOf(n \div 10) \o <<n % 10>>

DigitChar(d) ==
  CASE d = 0 -> "0" [] d = 1 -> "1" [] d = 2 -> "2" [] d = 3 -> "3"
    [] d = 4 -> "4" [] d = 5 -> "5" [] d = 6 -> "6" [] d = 7 -> "7"
    [] d = 8 -> "8" [] d = 9 -> "9"

DigitString(n) == [i \in 1..Len(DigitsOf(n)) |-> DigitChar(DigitsOf(n)[i])]

Abs(i) == IF i < 0 THEN -i ELSE i

\* Number.prototype.toString (radix 10), ECMAScript Number::toString:
\* with k digits s and the decimal point after digit n, decimal notation is
\* used for -6 < n <= 21 and exponential notation otherwise.
NumberToString(x) ==
  CASE x.kind = "nan" -> <<"N", "a", "N">>
    [] x.kind = "inf" -> <<"I", "n", "f", "i", "n", "i", "t", "y">>
    [] x.kind = "zero" -> <<"0">>
    [] x.kind = "num" ->
         LET s == DigitString(x.m)
             k == Len(s)
             n == k + x.e
             minus == IF x.sign = -1 THEN <<"-">> ELSE <<>>
             body ==
               IF k <= n /\ n <= 21 THEN s \o Repeat("0", n - k)
               ELSE IF 0 < n /\ n <= 21
                 THEN SubSeq(s, 1, n) \o <<".">> \o SubSeq(s, n + 1, k)
               ELSE IF -6 < n /\ n <= 0
                 THEN <<"0", ".">> \o Repeat("0", -n) \o s
               ELSE LET ex == <<"e">> \o (IF n - 1 < 0 THEN <<"-">> ELSE <<"+">>)
                                 \o DigitString(Abs(n - 1))
                    IN IF k = 1 THEN s \o ex
                       ELSE <<s[1], ".">> \o SubSeq(s, 2, k) \o ex
         IN minus \o body

\* str.split('.')[1] || '' : the text between the first and the second dot
RECURSIVE UpToDot(_)
UpToDot(s) ==
  IF s = <<>> \/ Head(s) = "." THEN <<>> ELSE <<Head(s)>> \o UpToDot(Tail(s))

RECURSIVE AfterFirstDot(_)
AfterFirstDot(s) ==
  IF s = <<>> THEN <<>>
  ELSE IF Head(s) = "." THEN UpToDot(Tail(s))
  ELSE AfterFirstDot(Tail(s))

DecimalPlaces(x) == Len(AfterFirstDot(NumberToString(x)))

(***************************************************************************)
(* Amount validation                                                       *)
(***************************************************************************)
Valid == [isValid |-> TRUE, errors |-> <<>>]
Invalid(errs) == [isValid |-> FALSE, errors |-> errs]

AMOUNT_MAX_DECIMAL_PLACES == 2

\* expense validateAmount(amount: number)
ValidateAmountExpense(amount) ==
  IF IsNegative(amount) THEN Invalid(<<"Amount cannot be negative">>)
  ELSE IF ~IsFinite(amount) THEN Invalid(<<"Amount must be a valid number">>)
  ELSE IF DecimalPlaces(amount) > 2
    THEN Invalid(<<"Amount cannot have more than 2 decimal places">>)
  ELSE Valid

\* A string amount is [kind |-> "str", text, value]: its text and the number
\* parseFloat reads from it (NaN when the text starts with no number).
Str(text, value) == [kind |-> "str", text |-> text, value |-> value]

ParseFloat(s) == s.value

\* income validateAmount(amount: number | string): the list of errors
ValidateAmountIncomeErrors(amount) ==
  IF (amount.kind = "str" /\ amount.text = <<>>) \/ amount.kind = "nan"
    THEN <<"Amount is required">>
  ELSE
    LET numAmount == IF amount.kind = "str" THEN ParseFloat(amount) ELSE amount
        positive ==
          IF IsNaN(numAmount) \/ ~IsPositive(numAmount)
            THEN <<"Amount must be positive">> ELSE <<>>
        decimal ==
          IF DecimalPlaces(numAmount) > AMOUNT_MAX_DECIMAL_PLACES
            THEN <<"Amount can have maximum 2 decimal places">> ELSE <<>>
    IN positive \o decimal

ValidateAmountIncome(amount) ==
  LET errs == ValidateAmountIncomeErrors(amount)
  IN IF errs = <<>> THEN Valid ELSE Invalid(errs)

(***************************************************************************)
(* Category name validation                                                *)
(***************************************************************************)
CATEGORY_MAX_LENGTH == 15

\* /^[a-zA-Z0-9\s]+$/.test(name)
MatchesAlnumSpace(name) ==
  /\ name # <<>>
  /\ \A i \in 1..Len(name) : name[i] \in Letters \cup DigitChars \cup WhiteSpace

SeqContains(list, x) == \E i \in 1..Len(list) : list[i] = x

\* expense validateCategoryName(name, existingCategories)
ValidateCategoryNameExpense(name, existingCategories) ==
  IF name = <<>> \/ Len(Trim(name)) = 0
    THEN Invalid(<<"Category name is required">>)
  ELSE IF Trim(name) # name \/ Len(Trim(name)) = 0
    THEN Invalid(<<"Category name cannot be only spaces">>)
  ELSE IF Len(name) > 15
    THEN Invalid(<<"Category name cannot exceed 15 characters">>)
  ELSE IF ~MatchesAlnumSpace(name)
    THEN Invalid(<<"Category name can only contain alphanumeric characters and spaces">>)
  ELSE IF SeqContains(existingCategories, name)
    THEN Invalid(<<"Category name already exists (case-sensitive)">>)
  ELSE Valid

NoId == 0

\* useIncomeCategories.validateCategoryName(name, excludeId) over the hook's
\* categories, a list of [id, name]; excludeId is NoId when not given
ValidateCategoryNameHook(categories, name, excludeId) ==
  IF name = <<>> \/ Len(Trim(name)) = 0
    THEN Invalid(<<"Category name is required">>)
  ELSE IF Len(name) > 15
    THEN Invalid(<<"Category name cannot exceed 15 characters">>)
  ELSE IF ~MatchesAlnumSpace(name)
    THEN Invalid(<<"Category name must contain only alphanumeric characters and spaces">>)
  ELSE IF Trim(name) # name
    THEN Invalid(<<"Category name cannot start or end with spaces">>)
  ELSE IF \E i \in 1..Len(categories) :
            /\ categories[i].name = name
            /\ (IF excludeId # NoId THEN categories[i].id # excludeId ELSE TRUE)
    THEN Invalid(<<"Category name already exists">>)
  ELSE Valid

\* income validateCategory(category, existingCategories): the list of errors
ValidateCategoryErrors(category, existingCategories) ==
  IF category = <<>> \/ Len(Trim(category)) = 0
    THEN <<"Category is required">>
  ELSE
    (IF Len(category) > CATEGORY_MAX_LENGTH
       THEN <<"Category name cannot exceed 15 characters">> ELSE <<>>)
    \o (IF ~MatchesAlnumSpace(category)
          THEN <<"Category name must contain only alphanumeric characters and spaces">>
          ELSE <<>>)
    \o (IF SeqContains(existingCategories, category)
          THEN <<"Category name already exists">> ELSE <<>>)

ValidateCategory(category, existingCategories) ==
  LET errs == ValidateCategoryErrors(category, existingCategories)
  IN IF errs = <<>> THEN Valid ELSE Invalid(errs)

(***************************************************************************)
(* Dates.  A date string is the ISO date text YYYY-MM-DD, [kind |-> "iso", *)
(* y, m, d], or a text no date can be read from.  new Date(text) reads an  *)
(* ISO date as midnight UTC of that day.                                   *)
(***************************************************************************)
IsoDate(y, m, d) == [kind |-> "iso", y |-> y, m |-> m, d |-> d]
EmptyDateText == [kind |-> "text", text |-> <<>>]
BadDateText == [kind |-> "text", text |-> <<"a", "B">>]

\* Time is counted in minutes since the epoch (getTime() / 60000): the texts
\* are whole days and the zone offsets whole hours.
MinutesPerDay == 24 * 60
MinutesPerHour == 60 * 1

\* days from 1970-01-01 to the civil date y-m-d (proleptic Gregorian)
DaysFromCivil(y, m, d) ==
  LET yy == IF m <= 2 THEN y - 1 ELSE y
      era == yy \div 400
      yoe == yy - era * 400
      mp == IF m > 2 THEN m - 3 ELSE m + 9
      doy == (153 * mp + 2) \div 5 + d - 1
      doe == yoe * 365 + yoe \div 4 - yoe \div 100 + doy
  IN era * 146097 + doe - 719468

\* the civil date [y, m, d] of a day number
CivilFromDays(z) ==
  LET zz == z + 719468
      era == zz \div 146097
      doe == zz - era * 146097
      yoe == (doe - doe \div 1460 + doe \div 36524 - doe \div 146096) \div 365
      doy == doe - (365 * yoe + yoe \div 4 - yoe \div 100)
      mp == (5 * doy + 2) \div 153
      d == doy - (153 * mp + 2) \div 5 + 1
      m == IF mp < 10 THEN mp + 3 ELSE mp - 9
      y == yoe + era * 400 + (IF m <= 2 THEN 1 ELSE 0)
  IN [y |-> y, m |-> m, d |-> d]

InvalidTime == [valid |-> FALSE, t |-> 0]

\* new Date(text).getTime(): the time since the epoch, or NaN (not valid)
DateGetTime(text) ==
  IF text.kind = "iso"
    THEN [valid |-> TRUE, t |-> DaysFromCivil(text.y, text.m, text.d) * MinutesPerDay]
    ELSE InvalidTime

\* new Date('2008-01-01')
MIN_DATE == IsoDate(2008, 1, 1)

\* validateDate with the floor compared by <=: 2008-01-01 itself is rejected
MutValidateDateExpense(date) ==
  LET inputDate == DateGetTime(date)
      minDate == DateGetTime(MIN_DATE)
  IN IF ~inputDate.valid THEN Invalid(<<"Invalid date format">>)
     ELSE IF inputDate.t <= minDate.t
       THEN Invalid(<<"Date cannot be before January 1, 2008">>)
     ELSE Valid

\* expense validateDate(date)
ValidateDateExpense(date) ==
  LET inputDate == DateGetTime(date)
      minDate == DateGetTime(MIN_DATE)
  IN IF ~inputDate.valid THEN Invalid(<<"Invalid date format">>)
     ELSE IF inputDate.t < minDate.t
       THEN Invalid(<<"Date cannot be before January 1, 2008">>)
     ELSE Valid

\* income validateDate(date): the list of errors
ValidateDateIncomeErrors(date) ==
  IF date.kind = "text" /\ date.text = <<>> THEN <<"Date is required">>
  ELSE LET dateObj == DateGetTime(date)
           minDate == DateGetTime(MIN_DATE)
       IN IF ~dateObj.valid THEN <<"Please select a valid date">>
          ELSE IF dateObj.t < minDate.t
            THEN <<"Date cannot be before January 1, 2008">>
          ELSE <<>>

ValidateDateIncome(date) ==
  LET errs == ValidateDateIncomeErrors(date)
  IN IF errs = <<>> THEN Valid ELSE Invalid(errs)

(***************************************************************************)
(* The validators as a state machine: a call is drawn, then made.          *)
(***************************************************************************)
ExpRange == 22
MaxCore == 2

Mantissas == {1, 5, 12, 15, 123, 1234}

NumberInputs ==
  {Zero, NaN, Infinity}
    \cup {Num(sg, m, e) : sg \in {1, -1}, m \in Mantissas, e \in (-ExpRange)..ExpRange}

StringAmountInputs ==
  { Str(<<>>, NaN),
    Str(<<"a", "B">>, NaN),
    Str(<<"0">>, Zero),
    Str(<<"1", ".", "5", "0">>, Num(1, 15, -1)),
    Str(<<"1", ".", "2", "3", "4">>, Num(1, 1234, -3)),
    Str(<<"-", "1">>, Num(-1, 1, 0)) }

NameChars == {"a", "B", "1", " ", "\t", "-"}

SeqsUpTo(S, n) == UNION {[1..k -> S] : k \in 0..n}

PadLens == {0, CATEGORY_MAX_LENGTH - 2, CATEGORY_MAX_LENGTH - 1}

NameInputs ==
  {core \o Repeat("a", pad) : core \in SeqsUpTo(NameChars, MaxCore), pad \in PadLens}

ExistingInputs ==
  { <<>>,
    << <<"a">> >>,
    << <<"B">>, <<"a", "1">> >>,
    << <<"A">> >> }

\* the hook's category list holding the names of `existing`, ids 1, 2, ...
AsCategories(existing) ==
  [i \in 1..Len(existing) |-> [id |-> i, name |-> existing[i]]]

IsLeap(y) == (y % 4 = 0 /\ y % 100 # 0) \/ y % 400 = 0

DaysInMonth(y, m) ==
  IF m = 2 THEN (IF IsLeap(y) THEN 29 ELSE 28)
  ELSE IF m \in {4, 6, 9, 11} THEN 30 ELSE 31

DateYears == {1999, 2007, 2008, 2009, 2024}

DateInputs ==
  {EmptyDateText, BadDateText}
    \cup {IsoDate(y, m, d) : y \in DateYears, m \in 1..12, d \in {1, 15, 28}}
    \cup {IsoDate(y, m, DaysInMonth(y, m)) : y \in DateYears, m \in 1..12}

AmountCalls ==
  {[fn |-> "validateAmount", variant |-> "expense", amount |-> x] : x \in NumberInputs}
    \cup {[fn |-> "validateAmount", variant |-> "income", amount |-> x] :
            x \in NumberInputs \cup StringAmountInputs}

CategoryCalls ==
  {[fn |-> "validateCategoryName", variant |-> v, name |-> n, existing |-> ex,
    excludeId |-> NoId] :
      v \in {"expense", "utils", "hook"}, n \in NameInputs, ex \in ExistingInputs}
    \cup {[fn |-> "validateCategoryName", variant |-> "hook", name |-> n,
           existing |-> ex, excludeId |-> 1] :
            n \in NameInputs, ex \in ExistingInputs}

DateCalls ==
  {[fn |-> "validateDate", variant |-> v, date |-> d] :
      v \in {"expense", "income"}, d \in DateInputs}

Calls == AmountCalls \cup CategoryCalls \cup DateCalls

NotCalled == [done |-> FALSE, isValid |-> FALSE, errors |-> <<>>]
Returned(r) == [done |-> TRUE, isValid |-> r.isValid, errors |-> r.errors]

InitValidate ==
  /\ call \in Calls
  /\ res = NotCalled
  /\ incomeHook = InitialHook
  /\ expenseHook = InitialHook
  /\ cachedExpenses = <<>>
  /\ filters = NoFilters
  /\ searchQuery = <<>>
  /\ env = DefaultEnv
  /\ remote = EmptyRemote
  /\ pendingSync = <<>>
  /\ tasks = <<IdleTask>>
  /\ FormAtRest
  /\ CategoriesAtRest
  /\ syncCall = IdleSync
  /\ HooksAtRest
  /\ ServiceAtRest

CallValidateAmountExpense ==
  /\ ~res.done
  /\ call.fn = "validateAmount" /\ call.variant = "expense"
  /\ res' = Returned(ValidateAmountExpense(call.amount))
  /\ UNCHANGED <<hookVars, serviceVars, syncVars, categoryVars, formVars, call, listVars, txnVars, storageVars>>

CallValidateAmountIncome ==
  /\ ~res.done
  /\ call.fn = "validateAmount" /\ call.variant = "income"
  /\ res' = Returned(ValidateAmountIncome(call.amount))
  /\ UNCHANGED <<hookVars, serviceVars, syncVars, categoryVars, formVars, call, listVars, txnVars, storageVars>>

CallValidateCategoryNameExpense ==
  /\ ~res.done
  /\ call.fn = "validateCategoryName" /\ call.variant = "expense"
  /\ res' = Returned(ValidateCategoryNameExpense(call.name, call.existing))
  /\ UNCHANGED <<hookVars, serviceVars, syncVars, categoryVars, formVars, call, listVars, txnVars, storageVars>>

CallValidateCategoryNameHook ==
  /\ ~res.done
  /\ call.fn = "validateCategoryName" /\ call.variant = "hook"
  /\ res' = Returned(ValidateCategoryNameHook(AsCategories(call.existing),
                                              call.name, call.excludeId))
  /\ UNCHANGED <<hookVars, serviceVars, syncVars, categoryVars, formVars, call, listVars, txnVars, storageVars>>

CallValidateCategory ==
  /\ ~res.done
  /\ call.fn = "validateCategoryName" /\ call.variant = "utils"
  /\ res' = Returned(ValidateCategory(call.name, call.existing))
  /\ UNCHANGED <<hookVars, serviceVars, syncVars, categoryVars, formVars, call, listVars, txnVars, storageVars>>

CallValidateDateExpense ==
  /\ ~res.done
  /\ call.fn = "validateDate" /\ call.variant = "expense"
  /\ res' = Returned(ValidateDateExpense(call.date))
  /\ UNCHANGED <<hookVars, serviceVars, syncVars, categoryVars, formVars, call, listVars, txnVars, storageVars>>

CallValidateDateIncome ==
  /\ ~res.done
  /\ call.fn = "validateDate" /\ call.variant = "income"
  /\ res' = Returned(ValidateDateIncome(call.date))
  /\ UNCHANGED <<hookVars, serviceVars, syncVars, categoryVars, formVars, call, listVars, txnVars, storageVars>>

NextValidate ==
  \/ CallValidateAmountExpense
  \/ CallValidateAmountIncome
  \/ CallValidateCategoryNameExpense
  \/ CallValidateCategoryNameHook
  \/ CallValidateCategory
  \/ CallValidateDateExpense
  \/ CallValidateDateIncome

SpecValidate == InitValidate /\ [][NextValidate]_vars

(***************************************************************************)
(* Claims about the validators                                             *)
(***************************************************************************)
\* the number an amount argument denotes
AmountValue(a) == IF a.kind = "str" THEN a.value ELSE a

\* the number of fractional digits of a number
FracDigits(x) == IF x.kind = "num" /\ x.e < 0 THEN -x.e ELSE 0

AmountReturned == res.done /\ call.fn = "validateAmount"

\* C1: validateAmount (expense and income) rejects every negative amount and
\* every amount with more than 2 fractional digits, and accepts a positive
\* amount with exactly 2 fractional digits.
C1_AmountPrecision ==
  AmountReturned /\ IsFinite(AmountValue(call.amount)) =>
    LET x == AmountValue(call.amount)
    IN /\ IsNegative(x) => ~res.isValid
       /\ FracDigits(x) > 2 => ~res.isValid
       /\ IsPositive(x) /\ FracDigits(x) = 2 => res.isValid

\* C9: income amount validation rejects 0 and every amount <= 0, expense
\* amount validation accepts 0, and both accept every positive amount with at
\* most 2 fractional digits.
C9_AmountSign ==
  AmountReturned /\ IsFinite(AmountValue(call.amount)) =>
    LET x == AmountValue(call.amount)
    IN /\ call.variant = "income" /\ ~IsPositive(x) => ~res.isValid
       /\ call.variant = "expense" /\ x = Zero => res.isValid
       /\ IsPositive(x) /\ FracDigits(x) <= 2 => res.isValid

NameReturned == res.done /\ call.fn = "validateCategoryName"

\* the names a call's name is compared with
ExistingNames ==
  {call.existing[i] : i \in {j \in 1..Len(call.existing) :
                               call.excludeId = NoId \/ j # call.excludeId}}

\* C2: validateCategoryName rejects a name containing a character other than
\* letters, digits and spaces, a name longer than 15 characters, a name equal
\* to an existing name and a name made only of whitespace; it accepts a
\* trimmed alphanumeric name of 1 to 15 characters not in the existing list.
C2_CategoryNameRules ==
  NameReturned =>
    LET name == call.name
        alnumSpace == \A i \in 1..Len(name) : name[i] \in Letters \cup DigitChars \cup {" "}
    IN /\ ~alnumSpace => ~res.isValid
       /\ Len(name) > 15 => ~res.isValid
       /\ name \in ExistingNames => ~res.isValid
       /\ (\A i \in 1..Len(name) : name[i] \in WhiteSpace) => ~res.isValid
       /\ ( /\ alnumSpace /\ Trim(name) = name
            /\ Len(name) >= 1 /\ Len(name) <= 15
            /\ name \notin ExistingNames ) => res.isValid

\* the calendar order of ISO dates
DateBefore(a, b) ==
  \/ a.y < b.y
  \/ a.y = b.y /\ a.m < b.m
  \/ a.y = b.y /\ a.m = b.m /\ a.d < b.d

\* C3: validateDate (expense and income) rejects every date before 2008-01-01
\* and accepts 2008-01-01 and every later valid date.
C3_DateFloor ==
  res.done /\ call.fn = "validateDate" /\ call.date.kind = "iso" =>
    (res.isValid <=> ~DateBefore(call.date, IsoDate(2008, 1, 1)))

C3_Witness ==
  /\ res.done /\ call.fn = "validateDate" /\ call.variant = "expense"
  /\ call.date = IsoDate(2008, 1, 1)
  /\ res.isValid

(***************************************************************************)
(* The list hooks useExpenseList and useIncomeList                         *)
(***************************************************************************)
PageSize == 1
MaxMerged == 2
MaxPage == 2

NoError == InitialHook.error
FetchFailed == "Failed to load"
CachedDataMessage == "Showing cached data - unable to sync with server"
CacheWriteFailed == "Failed to cache expenses"
FiltersWriteFailed == "Failed to save cached filters"

Time(doc) == DateGetTime(doc.date).t

\* what getDocs can answer to the hooks' query: at most `lim` documents with
\* distinct ids, ordered by date descending
QueryResults(docs, lim) ==
  {r \in SeqsUpTo(docs, lim) :
     /\ \A i, j \in 1..Len(r) : i # j => r[i].id # r[j].id
     /\ \A i \in 1..(Len(r) - 1) : ~DateBefore(r[i].date, r[i + 1].date)}

\* loadExpenses / loadIncomes, the try block up to setCurrentPage(page)
Loaded(hook, result, total, page, append) ==
  [items |-> IF append /\ page > 1 THEN hook.items \o result ELSE result,
   totalCount |-> total,
   hasMore |-> (Len(result) = PageSize),
   currentPage |-> page,
   error |-> NoError]

\* the catch block of loadExpenses: the error, and for the first page the
\* cached expenses when there are any
\* a catch block that shows the cache even when it holds nothing
MutLoadFailed(hook, message, page, cached) ==
  IF page = 1
    THEN [hook EXCEPT !.items = cached, !.error = CachedDataMessage]
    ELSE [hook EXCEPT !.error = message]

\* the catch block of loadExpenses
LoadFailed(hook, message, page, cached) ==
  IF page = 1 /\ Len(cached) > 0
    THEN [hook EXCEPT !.items = cached, !.error = CachedDataMessage]
    ELSE [hook EXCEPT !.error = message]

\* expenseService.getExpenses with its outcome, then the caching of page 1:
\* outcome "ok", "fetchFail" (getExpenses throws), "cacheFail" (cacheExpenses
\* throws), "filtersFail" (saveCachedFilters throws); readOk: whether
\* getCachedExpenses can read the cache (it answers [] when it cannot)
LoadExpensesStep(page, append, outcome, result, total, readOk) ==
  LET loaded == Loaded(expenseHook, result, total, page, append)
      cacheWritten == page = 1 /\ outcome \in {"ok", "filtersFail"}
      cacheNow == IF cacheWritten THEN result ELSE cachedExpenses
      cached == IF readOk THEN cacheNow ELSE <<>>
  IN /\ cachedExpenses' = cacheNow
     /\ expenseHook' =
          IF outcome = "fetchFail"
            THEN LoadFailed(expenseHook, FetchFailed, page, cached)
          ELSE IF page = 1 /\ outcome = "cacheFail"
            THEN LoadFailed(loaded, CacheWriteFailed, page, cached)
          ELSE IF page = 1 /\ outcome = "filtersFail"
            THEN LoadFailed(loaded, FiltersWriteFailed, page, cached)
          ELSE loaded

\* the documents of the list operations: expenses with two ids, incomes with
\* one, on two days
ListIds == {1, 2}
IncomeListIds == {1}
ListDates == {IsoDate(2024, 1, 1), IsoDate(2024, 1, 2)}
ListDocs ==
  [id : ListIds, amount : {40}, label : {<<"B">>}, description : {<<>>},
   category : {"Food"}, date : ListDates]
IncomeListDocs ==
  [id : IncomeListIds, amount : {100}, label : {<<"a">>}, description : {<<>>},
   category : {"Salary"}, date : ListDates]

Outcomes == {"ok", "fetchFail", "cacheFail", "filtersFail"}

ExpenseResults == QueryResults(ListDocs, PageSize)
IncomeResults == QueryResults(IncomeListDocs, PageSize)

\* the effect on mount and on filters/sort change, and refresh: loadExpenses(1, false)
ExpenseLoad ==
  \E outcome \in Outcomes, result \in ExpenseResults,
     total \in 0..(PageSize + 1), readOk \in BOOLEAN :
    /\ total >= Len(result)
    /\ Len(incomeHook.items) + Len(result) <= MaxMerged
    /\ Len(incomeHook.items) + Len(cachedExpenses) <= MaxMerged
    /\ outcome = "fetchFail" => result = <<>> /\ total = 0
    /\ LoadExpensesStep(1, FALSE, outcome, result, total, readOk)
    /\ UNCHANGED <<hookVars, serviceVars, syncVars, categoryVars, formVars, incomeHook, validateVars, txnVars, storageVars>>

\* expense loadMore: loadExpenses(currentPage + 1, true)
ExpenseLoadMore ==
  \E outcome \in {"ok", "fetchFail"}, result \in ExpenseResults,
     total \in 0..(PageSize + 1) :
    /\ expenseHook.hasMore
    /\ expenseHook.currentPage < MaxPage
    /\ Len(incomeHook.items) + Len(expenseHook.items) + Len(result) <= MaxMerged
    /\ total >= Len(result)
    /\ outcome = "fetchFail" => result = <<>> /\ total = 0
    /\ LoadExpensesStep(expenseHook.currentPage + 1, TRUE, outcome, result, total, TRUE)
    /\ UNCHANGED <<hookVars, serviceVars, syncVars, categoryVars, formVars, incomeHook, validateVars, txnVars, storageVars>>

\* loadIncomes(page, append) with getIncomes answering or throwing
LoadIncomesStep(page, append, ok, result, total) ==
  incomeHook' =
    IF ok THEN Loaded(incomeHook, result, total, page, append)
    ELSE [incomeHook EXCEPT !.error = FetchFailed]

IncomeLoad ==
  \E ok \in BOOLEAN, result \in IncomeResults, total \in 0..(PageSize + 1) :
    /\ total >= Len(result)
    /\ Len(expenseHook.items) + Len(result) <= MaxMerged
    /\ ~ok => result = <<>> /\ total = 0
    /\ LoadIncomesStep(1, FALSE, ok, result, total)
    /\ UNCHANGED <<hookVars, serviceVars, syncVars, categoryVars, formVars, expenseHook, cachedExpenses, validateVars, txnVars, storageVars>>

IncomeLoadMore ==
  \E ok \in BOOLEAN, result \in IncomeResults, total \in 0..(PageSize + 1) :
    /\ incomeHook.hasMore
    /\ incomeHook.currentPage < MaxPage
    /\ Len(incomeHook.items) + Len(expenseHook.items) + Len(result) <= MaxMerged
    /\ total >= Len(result)
    /\ ~ok => result = <<>> /\ total = 0
    /\ LoadIncomesStep(incomeHook.currentPage + 1, TRUE, ok, result, total)
    /\ UNCHANGED <<hookVars, serviceVars, syncVars, categoryVars, formVars, expenseHook, cachedExpenses, validateVars, txnVars, storageVars>>

\* addExpenseToList / addIncomeToList: both branches put the record first
AddToList(hook, doc) ==
  [hook EXCEPT !.items = <<doc>> \o hook.items,
               !.totalCount = hook.totalCount + 1]

\* updateExpenseInList / updateIncomeInList
UpdateInList(hook, doc) ==
  [hook EXCEPT !.items =
     [i \in 1..Len(hook.items) |->
        IF hook.items[i].id = doc.id THEN doc ELSE hook.items[i]]]

\* removeExpenseFromList / removeIncomeFromList
RemoveFromList(hook, id) ==
  [hook EXCEPT !.items = SelectSeq(hook.items, LAMBDA x : x.id # id),
               !.totalCount = IF hook.totalCount - 1 > 0 THEN hook.totalCount - 1 ELSE 0]

AddExpenseToList ==
  \E doc \in ListDocs :
    /\ Len(incomeHook.items) + Len(expenseHook.items) < MaxMerged
    /\ expenseHook.totalCount <= PageSize
    /\ expenseHook' = AddToList(expenseHook, doc)
    /\ UNCHANGED <<hookVars, serviceVars, syncVars, categoryVars, formVars, incomeHook, cachedExpenses, validateVars, txnVars, storageVars>>

UpdateExpenseInList ==
  \E doc \in ListDocs :
    /\ expenseHook' = UpdateInList(expenseHook, doc)
    /\ UNCHANGED <<hookVars, serviceVars, syncVars, categoryVars, formVars, incomeHook, cachedExpenses, validateVars, txnVars, storageVars>>

RemoveExpenseFromList ==
  \E id \in ListIds :
    /\ expenseHook' = RemoveFromList(expenseHook, id)
    /\ UNCHANGED <<hookVars, serviceVars, syncVars, categoryVars, formVars, incomeHook, cachedExpenses, validateVars, txnVars, storageVars>>

AddIncomeToList ==
  \E doc \in IncomeListDocs :
    /\ Len(incomeHook.items) + Len(expenseHook.items) < MaxMerged
    /\ incomeHook.totalCount <= PageSize
    /\ incomeHook' = AddToList(incomeHook, doc)
    /\ UNCHANGED <<hookVars, serviceVars, syncVars, categoryVars, formVars, expenseHook, cachedExpenses, validateVars, txnVars, storageVars>>

UpdateIncomeInList ==
  \E doc \in IncomeListDocs :
    /\ incomeHook' = UpdateInList(incomeHook, doc)
    /\ UNCHANGED <<hookVars, serviceVars, syncVars, categoryVars, formVars, expenseHook, cachedExpenses, validateVars, txnVars, storageVars>>

RemoveIncomeFromList ==
  \E id \in IncomeListIds :
    /\ incomeHook' = RemoveFromList(incomeHook, id)
    /\ UNCHANGED <<hookVars, serviceVars, syncVars, categoryVars, formVars, expenseHook, cachedExpenses, validateVars, txnVars, storageVars>>

IdleCall == [fn |-> "none"]

InitList ==
  /\ call = IdleCall
  /\ res = NotCalled
  /\ incomeHook = InitialHook
  /\ expenseHook = InitialHook
  /\ cachedExpenses = <<>>
  /\ filters = NoFilters
  /\ searchQuery = <<>>
  /\ env = DefaultEnv
  /\ remote = EmptyRemote
  /\ pendingSync = <<>>
  /\ tasks = <<IdleTask>>
  /\ FormAtRest
  /\ CategoriesAtRest
  /\ syncCall = IdleSync
  /\ HooksAtRest
  /\ ServiceAtRest

NextList ==
  \/ ExpenseLoad
  \/ ExpenseLoadMore
  \/ IncomeLoad
  \/ IncomeLoadMore
  \/ AddExpenseToList
  \/ UpdateExpenseInList
  \/ RemoveExpenseFromList
  \/ AddIncomeToList
  \/ UpdateIncomeInList
  \/ RemoveIncomeFromList

SpecList == InitList /\ [][NextList]_vars

(***************************************************************************)
(* useTransactionList: the merged list                                     *)
(***************************************************************************)
\* createTransactionFromIncome / createTransactionFromExpense
CreateTransaction(doc, type) ==
  [id |-> doc.id, amount |-> doc.amount, label |-> doc.label,
   description |-> doc.description, category |-> doc.category,
   date |-> doc.date, type |-> type]

\* the sort with the comparator's operands exchanged: oldest first
RECURSIVE MutInsertByDateAsc(_, _)
MutInsertByDateAsc(sorted, x) ==
  IF sorted = <<>> THEN <<x>>
  ELSE IF Time(Head(sorted)) - Time(x) > 0
    THEN <<x>> \o sorted
    ELSE <<Head(sorted)>> \o MutInsertByDateAsc(Tail(sorted), x)

\* Array.prototype.sort with (a, b) => time(b) - time(a): a stable sort that
\* puts a before b when the comparator is negative, that is time(a) > time(b)
RECURSIVE InsertByDateDesc(_, _)
InsertByDateDesc(sorted, x) ==
  IF sorted = <<>> THEN <<x>>
  ELSE IF Time(x) - Time(Head(sorted)) > 0
    THEN <<x>> \o sorted
    ELSE <<Head(sorted)>> \o InsertByDateDesc(Tail(sorted), x)

RECURSIVE SortByDateDesc(_)
SortByDateDesc(list) ==
  IF list = <<>> THEN <<>>
  ELSE InsertByDateDesc(SortByDateDesc(SubSeq(list, 1, Len(list) - 1)), list[Len(list)])

MapTransactions(items, type) ==
  [i \in 1..Len(items) |-> CreateTransaction(items[i], type)]

\* allTransactions
AllTransactionsOf(incomes, expenses) ==
  SortByDateDesc(MapTransactions(incomes, "income") \o MapTransactions(expenses, "expense"))

allTransactions == AllTransactionsOf(incomeHook.items, expenseHook.items)

(***************************************************************************)
(* Claims about the merged list                                            *)
(***************************************************************************)
\* C4 as stated: allTransactions is sorted strictly by date descending, every
\* entry's date is later than the date of the entry that follows it.
C4_StrictlyDescending ==
  \A i \in 1..(Len(allTransactions) - 1) :
    DateBefore(allTransactions[i + 1].date, allTransactions[i].date)

\* C4 (amended): after any sequence of list operations allTransactions holds
\* exactly the entries of the two lists and is sorted by date descending:
\* no entry's date is earlier than the date of the entry that follows it
\* (entries of the same day are adjacent).
C4_Descending ==
  /\ Len(allTransactions) = Len(incomeHook.items) + Len(expenseHook.items)
  /\ \A i \in 1..(Len(allTransactions) - 1) :
       ~DateBefore(allTransactions[i].date, allTransactions[i + 1].date)

C4_Witness ==
  /\ Len(incomeHook.items) = 1 /\ Len(expenseHook.items) = 1
  /\ DateBefore(incomeHook.items[1].date, expenseHook.items[1].date)
  /\ allTransactions[1].type = "expense"
  /\ expenseHook.totalCount = 1 /\ expenseHook.error = NoError

(***************************************************************************)
(* useTransactionList: filtering                                           *)
(***************************************************************************)
\* String.prototype.toLowerCase over the letters of the model
ToLowerCase(s) ==
  [i \in 1..Len(s) |-> IF s[i] = "B" THEN "b" ELSE IF s[i] = "A" THEN "a" ELSE s[i]]

\* String.prototype.includes
Includes(text, q) ==
  \E i \in 0..(Len(text) - Len(q)) : SubSeq(text, i + 1, i + Len(q)) = q

\* C25: category name validation rejects a new name that differs from an
\* existing category name only by letter case.
C25_CaseVariantsRejected ==
  (/\ NameReturned
   /\ \E existing \in ExistingNames :
        existing # call.name /\ ToLowerCase(existing) = ToLowerCase(call.name)) =>
    ~res.isValid

\* the searchable text without the description
MutSearchableText(t) == ToLowerCase(t.label)

\* `${transaction.label} ${transaction.description || ''}`.toLowerCase()
SearchableText(t) == ToLowerCase(t.label \o <<" ">> \o t.description)

\* new Date(a) < new Date(b): false when either date is invalid
DateLess(a, b) ==
  LET x == DateGetTime(a)
      y == DateGetTime(b)
  IN x.valid /\ y.valid /\ x.t < y.t

\* a string property that is set and not empty
TruthyText(o) == o.some /\ Len(o.v) > 0
TruthyDate(o) == o.some /\ o.v # EmptyDateText

\* the predicate with the category list tested for presence only: an empty
\* list excludes every transaction
MutPassesFiltersCategory(t, f) ==
  /\ TruthyText(f.searchQuery) =>
       Includes(SearchableText(t), ToLowerCase(f.searchQuery.v))
  /\ ~(f.type.some /\ f.type.v # "all" /\ t.type # f.type.v)
  /\ f.categories.some => SeqContains(f.categories.v, t.category)
  /\ ~(TruthyDate(f.dateFrom) /\ DateLess(t.date, f.dateFrom.v))
  /\ ~(TruthyDate(f.dateTo) /\ DateLess(f.dateTo.v, t.date))
  /\ ~(f.amountMin.some /\ t.amount < f.amountMin.v)
  /\ ~(f.amountMax.some /\ t.amount > f.amountMax.v)

\* the predicate with the amount bounds tested for truthiness: a bound of 0
\* is ignored
MutPassesFiltersAmount(t, f) ==
  /\ TruthyText(f.searchQuery) =>
       Includes(SearchableText(t), ToLowerCase(f.searchQuery.v))
  /\ ~(f.type.some /\ f.type.v # "all" /\ t.type # f.type.v)
  /\ (f.categories.some /\ Len(f.categories.v) > 0) =>
       SeqContains(f.categories.v, t.category)
  /\ ~(TruthyDate(f.dateFrom) /\ DateLess(t.date, f.dateFrom.v))
  /\ ~(TruthyDate(f.dateTo) /\ DateLess(f.dateTo.v, t.date))
  /\ ~(f.amountMin.some /\ f.amountMin.v # 0 /\ t.amount < f.amountMin.v)
  /\ ~(f.amountMax.some /\ f.amountMax.v # 0 /\ t.amount > f.amountMax.v)

\* the predicate of filteredTransactions
PassesFilters(t, f) ==
  /\ TruthyText(f.searchQuery) =>
       Includes(SearchableText(t), ToLowerCase(f.searchQuery.v))
  /\ ~(f.type.some /\ f.type.v # "all" /\ t.type # f.type.v)
  /\ (f.categories.some /\ Len(f.categories.v) > 0) =>
       SeqContains(f.categories.v, t.category)
  /\ ~(TruthyDate(f.dateFrom) /\ DateLess(t.date, f.dateFrom.v))
  /\ ~(TruthyDate(f.dateTo) /\ DateLess(f.dateTo.v, t.date))
  /\ ~(f.amountMin.some /\ t.amount < f.amountMin.v)
  /\ ~(f.amountMax.some /\ t.amount > f.amountMax.v)

FilteredTransactionsOf(all, f) == SelectSeq(all, LAMBDA t : PassesFilters(t, f))

filteredTransactions == FilteredTransactionsOf(allTransactions, filters)

(***************************************************************************)
(* useTransactionList: summaries                                           *)
(***************************************************************************)
\* list.reduce((sum, t) => sum + t.amount, 0)
RECURSIVE SumAmounts(_)
SumAmounts(list) ==
  IF list = <<>> THEN 0
  ELSE SumAmounts(SubSeq(list, 1, Len(list) - 1)) + list[Len(list)].amount

\* a / b as an exact fraction; the number 0 is 0 / 1
Divide(a, b) == [num |-> a, den |-> b]
ZeroFraction == Divide(0, 1)

OfType(list, type) == SelectSeq(list, LAMBDA t : t.type = type)

\* the summary with both averages taken over all the transactions
MutSummarize(list) ==
  LET totalIncome == SumAmounts(OfType(list, "income"))
      totalExpenses == SumAmounts(OfType(list, "expense"))
  IN [totalIncome |-> totalIncome,
      totalExpenses |-> totalExpenses,
      netBalance |-> totalIncome - totalExpenses,
      transactionCount |-> Len(list),
      incomeCount |-> Len(OfType(list, "income")),
      expenseCount |-> Len(OfType(list, "expense")),
      averageIncome |-> IF Len(list) > 0
                          THEN Divide(totalIncome, Len(list)) ELSE ZeroFraction,
      averageExpense |-> IF Len(list) > 0
                           THEN Divide(totalExpenses, Len(list)) ELSE ZeroFraction]

\* the TransactionSummaryData computed from a list of transactions
Summarize(list) ==
  LET incomeTransactions == OfType(list, "income")
      expenseTransactions == OfType(list, "expense")
      totalIncome == SumAmounts(incomeTransactions)
      totalExpenses == SumAmounts(expenseTransactions)
  IN [totalIncome |-> totalIncome,
      totalExpenses |-> totalExpenses,
      netBalance |-> totalIncome - totalExpenses,
      transactionCount |-> Len(list),
      incomeCount |-> Len(incomeTransactions),
      expenseCount |-> Len(expenseTransactions),
      averageIncome |-> IF Len(incomeTransactions) > 0
                          THEN Divide(totalIncome, Len(incomeTransactions))
                          ELSE ZeroFraction,
      averageExpense |-> IF Len(expenseTransactions) > 0
                           THEN Divide(totalExpenses, Len(expenseTransactions))
                           ELSE ZeroFraction]

\* the local calendar date of new Date(date) on a device utcOffset hours
\* from UTC: what getFullYear(), getMonth() and getDate() read
LocalDate(date, e) ==
  CivilFromDays((DateGetTime(date).t + e.utcOffset * MinutesPerHour) \div MinutesPerDay)

\* Date.prototype.getMonth(): months count from 0
GetMonth(date, e) == LocalDate(date, e).m - 1
GetFullYear(date, e) == LocalDate(date, e).y

InCurrentMonth(t, e) ==
  /\ DateGetTime(t.date).valid
  /\ GetMonth(t.date, e) = e.month
  /\ GetFullYear(t.date, e) = e.year

InCurrentYear(t, e) ==
  DateGetTime(t.date).valid /\ GetFullYear(t.date, e) = e.year

MonthlyTransactionsOf(list, e) == SelectSeq(list, LAMBDA t : InCurrentMonth(t, e))
YtdTransactionsOf(list, e) == SelectSeq(list, LAMBDA t : InCurrentYear(t, e))

summaryData == Summarize(filteredTransactions)
monthlyData == Summarize(MonthlyTransactionsOf(filteredTransactions, env))
yearToDateData == Summarize(YtdTransactionsOf(filteredTransactions, env))

(***************************************************************************)
(* useTransactionList as a state machine: the lists are what the two list  *)
(* hooks hold, the device has a zone and a current month, and the user     *)
(* searches, applies filters and clears them.                              *)
(***************************************************************************)
MaxTxn == 2

TxnDates == {IsoDate(2023, 12, 31), IsoDate(2024, 1, 1), IsoDate(2024, 1, 2)}

IncomeTxnDocs ==
  [id : {1}, amount : {40, 100}, label : {<<"a">>}, description : {<<>>},
   category : {"Salary"}, date : TxnDates]
ExpenseTxnDocs ==
  [id : {2}, amount : {0, 40, 100}, label : {<<"B">>}, description : {<<"a", "B">>},
   category : {"Food", "Other"}, date : TxnDates]

\* the hours between local time and UTC, and the local year and month of now
Envs == [utcOffset : {-5, 0}, year : {2024}, month : {0}]
          \cup {[utcOffset |-> 9, year |-> 2023, month |-> 11]}

CategoryFilterInputs ==
  {None, Some(<<>>), Some(<<"Food">>), Some(<<"Food", "Other">>)}
AmountBoundInputs == {None, Some(0), Some(40)}
SearchInputs == {<<>>, <<"b", " ", "A">>}

FilterInputs ==
  {[NoFilters EXCEPT !.categories = c, !.amountMin = lo, !.amountMax = hi] :
     c \in CategoryFilterInputs, lo \in AmountBoundInputs, hi \in AmountBoundInputs}
  \cup {[NoFilters EXCEPT !.type = Some(t)] : t \in {"all", "income", "expense"}}
  \cup {[NoFilters EXCEPT !.type = Some("expense"), !.categories = Some(<<"Other">>)]}
  \cup {[NoFilters EXCEPT !.dateFrom = Some(IsoDate(2024, 1, 1))],
        [NoFilters EXCEPT !.dateTo = Some(IsoDate(2024, 1, 1))],
        [NoFilters EXCEPT !.searchQuery = Some(<<"a">>), !.amountMin = Some(40)]}

HookHolding(items) ==
  [InitialHook EXCEPT !.items = items, !.totalCount = Len(items)]

InitTxn ==
  /\ call = IdleCall
  /\ res = NotCalled
  /\ cachedExpenses = <<>>
  /\ \E incomes \in SeqsUpTo(IncomeTxnDocs, MaxTxn), expenses \in SeqsUpTo(ExpenseTxnDocs, MaxTxn) :
       /\ Len(incomes) + Len(expenses) <= MaxTxn
       /\ incomeHook = HookHolding(incomes)
       /\ expenseHook = HookHolding(expenses)
  /\ filters = NoFilters
  /\ searchQuery = <<>>
  /\ env \in Envs
  /\ remote = EmptyRemote
  /\ pendingSync = <<>>
  /\ tasks = <<IdleTask>>
  /\ FormAtRest
  /\ CategoriesAtRest
  /\ syncCall = IdleSync
  /\ HooksAtRest
  /\ ServiceAtRest

\* search(query)
Search ==
  \E query \in SearchInputs :
    /\ searchQuery' = query
    /\ filters' = [filters EXCEPT !.searchQuery = Some(query)]
    /\ UNCHANGED <<hookVars, serviceVars, syncVars, categoryVars, formVars, validateVars, listVars, env, storageVars>>

\* applyFilters(newFilters)
ApplyFilters ==
  \E newFilters \in FilterInputs :
    /\ filters' = newFilters
    /\ searchQuery' = IF TruthyText(newFilters.searchQuery)
                        THEN newFilters.searchQuery.v ELSE <<>>
    /\ UNCHANGED <<hookVars, serviceVars, syncVars, categoryVars, formVars, validateVars, listVars, env, storageVars>>

\* clearFilters()
ClearFilters ==
  /\ filters' = NoFilters
  /\ searchQuery' = <<>>
  /\ UNCHANGED <<hookVars, serviceVars, syncVars, categoryVars, formVars, validateVars, listVars, env, storageVars>>

NextTxn ==
  \/ Search
  \/ ApplyFilters
  \/ ClearFilters

SpecTxn == InitTxn /\ [][NextTxn]_vars

(***************************************************************************)
(* Claims about the summaries and the filters                              *)
(***************************************************************************)
\* the income entries of a list, counted and added up entry by entry
IncomeIndices(list) == {i \in 1..Len(list) : list[i].type = "income"}
ExpenseIndices(list) == {i \in 1..Len(list) : list[i].type = "expense"}

RECURSIVE SumOver(_, _)
SumOver(list, indices) ==
  IF indices = {} THEN 0
  ELSE LET i == CHOOSE j \in indices : TRUE
       IN list[i].amount + SumOver(list, indices \ {i})

SummaryIdentities(s, list) ==
  /\ s.totalIncome = SumOver(list, IncomeIndices(list))
  /\ s.totalExpenses = SumOver(list, ExpenseIndices(list))
  /\ s.incomeCount = Cardinality(IncomeIndices(list))
  /\ s.netBalance = s.totalIncome - s.totalExpenses
  /\ s.incomeCount = 0 => s.averageIncome = ZeroFraction
  /\ s.incomeCount > 0 =>
       /\ s.averageIncome.den > 0
       /\ s.averageIncome.num * s.incomeCount = s.totalIncome * s.averageIncome.den

\* C5: in summaryData, monthlyData and yearToDateData, for every filtered
\* list, netBalance = totalIncome - totalExpenses and averageIncome is
\* totalIncome / incomeCount, or 0 when incomeCount is 0.
C5_SummaryIdentities ==
  /\ SummaryIdentities(summaryData, filteredTransactions)
  /\ SummaryIdentities(monthlyData, MonthlyTransactionsOf(filteredTransactions, env))
  /\ SummaryIdentities(yearToDateData, YtdTransactionsOf(filteredTransactions, env))

C5_Witness ==
  /\ filters.amountMin = Some(40)
  /\ summaryData.incomeCount = 2 /\ summaryData.totalIncome = 140
  /\ summaryData.averageIncome = Divide(140, 2)
  /\ monthlyData.incomeCount = 1 /\ monthlyData.averageIncome = Divide(100, 1)
  /\ yearToDateData.netBalance = 100

CategoryActive == filters.categories.some /\ Len(filters.categories.v) > 0
WithoutCategories == [filters EXCEPT !.categories = None]

\* C6: with a non-empty filters.categories the filtered list holds only
\* transactions of those categories, and every merged transaction of those
\* categories that passes the other filters; with an empty or absent
\* filters.categories no transaction is excluded by its category.
C6_CategoryFilter ==
  /\ CategoryActive =>
       /\ \A i \in 1..Len(filteredTransactions) :
            SeqContains(filters.categories.v, filteredTransactions[i].category)
       /\ filteredTransactions =
            SelectSeq(allTransactions,
                      LAMBDA t : /\ SeqContains(filters.categories.v, t.category)
                                 /\ PassesFilters(t, WithoutCategories))
  /\ ~CategoryActive =>
       filteredTransactions =
         SelectSeq(allTransactions, LAMBDA t : PassesFilters(t, WithoutCategories))

C6_Witness ==
  /\ filters.categories = Some(<<"Food">>)
  /\ filters.amountMin = Some(40)
  /\ Len(allTransactions) = 2
  /\ allTransactions[1].category = "Other" /\ allTransactions[1].amount = 100
  /\ allTransactions[2].category = "Food" /\ allTransactions[2].amount = 40
  /\ filteredTransactions = <<allTransactions[2]>>

InAmountRange(t) ==
  /\ filters.amountMin.some => t.amount >= filters.amountMin.v
  /\ filters.amountMax.some => t.amount <= filters.amountMax.v
WithoutAmounts == [filters EXCEPT !.amountMin = None, !.amountMax = None]

\* C7: the amount range is inclusive at both bounds: of the transactions that
\* pass the other filters, those with amountMin <= amount <= amountMax are
\* kept (the bounds themselves included) and those below amountMin or above
\* amountMax are dropped, also when a bound is 0.
C7_AmountRange ==
  /\ filteredTransactions =
       SelectSeq(allTransactions,
                 LAMBDA t : InAmountRange(t) /\ PassesFilters(t, WithoutAmounts))
  /\ \A i \in 1..Len(filteredTransactions) : InAmountRange(filteredTransactions[i])

C7_Witness ==
  /\ filters.amountMin = Some(0) /\ filters.amountMax = Some(0)
  /\ Len(allTransactions) = 2
  /\ allTransactions[1].amount = 40 /\ allTransactions[2].amount = 0
  /\ filteredTransactions = <<allTransactions[2]>>

\* two characters that differ at most by letter case
SameLetter(x, y) == ToLowerCase(<<x>>) = ToLowerCase(<<y>>)

\* q occurs in text, letter case ignored
ContainsIgnoringCase(text, q) ==
  \E at \in 0..(Len(text) - Len(q)) :
    \A k \in 1..Len(q) : SameLetter(text[at + k], q[k])

WithoutSearch == [filters EXCEPT !.searchQuery = None]

\* C23: with a non-empty searchQuery q the filtered list is exactly the merged
\* transactions that pass the other active filters and whose label and
\* description text contains q as a substring, letter case ignored; with
\* an empty query no transaction is excluded by the search.
C23_SearchFilter ==
  /\ searchQuery # <<>> =>
       filteredTransactions =
         SelectSeq(allTransactions,
                   LAMBDA t : /\ ContainsIgnoringCase(t.label \o <<" ">> \o t.description,
                                                      searchQuery)
                              /\ PassesFilters(t, WithoutSearch))
  /\ searchQuery = <<>> =>
       filteredTransactions =
         SelectSeq(allTransactions, LAMBDA t : PassesFilters(t, WithoutSearch))

\* the query "b A" is found across the label "B" and the description "aB" of
\* the expense, and the income with the label "a" is left out
C23_Witness ==
  /\ searchQuery = <<"b", " ", "A">>
  /\ Len(allTransactions) = 2
  /\ allTransactions[1].type = "income" /\ allTransactions[2].type = "expense"
  /\ filteredTransactions = <<allTransactions[2]>>

\* the transactions whose date text names the current month and year
DatedInCurrentMonth(t) == t.date.y = env.year /\ t.date.m - 1 = env.month

\* C8: monthlyData aggregates exactly the filtered transactions dated in the
\* current month and year; with incomes [{100, 2024-01-01}], expenses
\* [{40, 2024-01-02}], no filters and now in January 2024 it has
\* totalIncome 100, totalExpenses 40, netBalance 60 and transactionCount 2.
C8_MonthlyData ==
  /\ monthlyData =
       Summarize(SelectSeq(filteredTransactions, LAMBDA t : DatedInCurrentMonth(t)))
  /\ ( /\ Len(incomeHook.items) = 1 /\ Len(expenseHook.items) = 1
       /\ incomeHook.items[1].amount = 100
       /\ incomeHook.items[1].date = IsoDate(2024, 1, 1)
       /\ expenseHook.items[1].amount = 40
       /\ expenseHook.items[1].date = IsoDate(2024, 1, 2)
       /\ filters = NoFilters
       /\ env.year = 2024 /\ env.month = 0 ) =>
         /\ monthlyData.totalIncome = 100
         /\ monthlyData.totalExpenses = 40
         /\ monthlyData.netBalance = 60
         /\ monthlyData.transactionCount = 2

(***************************************************************************)
(* expenseStorageService: saveExpenseToFirestore, updateExpenseInFirestore *)
(* and the local stores they write.  A call advances from one await to the *)
(* next; the steps of different calls interleave.                          *)
(***************************************************************************)
MaxTasks == 2

Tasks == 1..MaxTasks

\* the expenses the service is called with
StorageDocs ==
  {[id |-> i, amount |-> 40, label |-> <<"B">>, description |-> <<>>,
    category |-> "Food", date |-> IsoDate(2024, 1, i)] : i \in StorageIds}

\* an earlier version of expense 1, queued by an earlier call
QueuedBefore ==
  [id |-> 1, amount |-> 100, label |-> <<"B">>, description |-> <<>>,
   category |-> "Food", date |-> IsoDate(2024, 1, 1)]

\* what the calls throw
FirestoreError == "FirestoreError"
PendingWriteFailed == "Failed to add pending sync expense"
NothingThrown == IdleTask.thrown

\* list.findIndex(e => e.id === id), counted from 1; 0 when there is none
FindIndexById(list, id) ==
  IF \E i \in 1..Len(list) : list[i].id = id
    THEN CHOOSE i \in 1..Len(list) :
           /\ list[i].id = id
           /\ \A j \in 1..(i - 1) : list[j].id # id
    ELSE 0

\* if (existingIndex >= 0) list[existingIndex] = expense; else list.push(expense)
UpsertById(list, expense) ==
  LET existingIndex == FindIndexById(list, expense.id)
  IN IF existingIndex > 0
       THEN [list EXCEPT ![existingIndex] = expense]
       ELSE Append(list, expense)

\* no syncWithFirestore call is running
SyncAtRest == syncCall.pc \in {"idle", "ended"}

Idle(i) == tasks[i].pc \in {"idle", "ended"}

StartCall(i, op, expense) ==
  tasks' = [tasks EXCEPT ![i] =
              [op |-> op, expense |-> expense, pc |-> "remoteWrite", read |-> <<>>,
               thrown |-> NothingThrown, remoteFailed |-> FALSE]]

\* saveExpenseToFirestore(expense), up to await setDoc(...)
SaveExpenseToFirestore ==
  \E i \in DOMAIN tasks, expense \in StorageDocs :
    /\ Idle(i)
    /\ SyncAtRest
    /\ StartCall(i, "save", expense)
    /\ UNCHANGED <<hookVars, serviceVars, syncVars, categoryVars, formVars, validateVars, listVars, txnVars, remote, pendingSync>>

\* updateExpenseInFirestore(expense), up to await updateDoc(...)
UpdateExpenseInFirestore ==
  \E i \in DOMAIN tasks, expense \in StorageDocs :
    /\ Idle(i)
    /\ SyncAtRest
    /\ StartCall(i, "update", expense)
    /\ UNCHANGED <<hookVars, serviceVars, syncVars, categoryVars, formVars, validateVars, listVars, txnVars, remote, pendingSync>>

\* setDoc / updateDoc: the server writes the document; updateDoc needs the
\* document to exist
RemoteWriteLands ==
  \E i \in DOMAIN tasks :
    /\ tasks[i].pc = "remoteWrite"
    /\ tasks[i].op = "update" => remote[tasks[i].expense.id].some
    /\ remote' = [remote EXCEPT ![tasks[i].expense.id] = Some(tasks[i].expense)]
    /\ tasks' = [tasks EXCEPT ![i].pc = "remoteWritten"]
    /\ UNCHANGED <<hookVars, serviceVars, syncVars, categoryVars, formVars, validateVars, listVars, txnVars, pendingSync>>

\* await setDoc / updateDoc resolves: cacheExpenseLocally is called
RemoteWriteResolves ==
  \E i \in DOMAIN tasks :
    /\ tasks[i].pc = "remoteWritten"
    /\ tasks' = [tasks EXCEPT ![i].pc = "cacheRead"]
    /\ UNCHANGED <<hookVars, serviceVars, syncVars, categoryVars, formVars, validateVars, listVars, txnVars, remote, pendingSync>>

\* await setDoc / updateDoc rejects: the catch block calls
\* addPendingSyncExpense
RemoteWriteFails ==
  \E i \in DOMAIN tasks :
    /\ tasks[i].pc = "remoteWrite"
    /\ tasks' = [tasks EXCEPT ![i].pc = "pendingRead",
                              ![i].thrown = FirestoreError,
                              ![i].remoteFailed = TRUE]
    /\ UNCHANGED <<hookVars, serviceVars, syncVars, categoryVars, formVars, validateVars, listVars, txnVars, remote, pendingSync>>

\* cacheExpenseLocally: getCachedExpenses(), [] when the read fails
CacheRead ==
  \E i \in DOMAIN tasks, readOk \in BOOLEAN :
    /\ tasks[i].pc = "cacheRead"
    /\ tasks' = [tasks EXCEPT ![i].pc = "cacheWrite",
                              ![i].read = IF readOk THEN cachedExpenses ELSE <<>>]
    /\ UNCHANGED <<hookVars, serviceVars, syncVars, categoryVars, formVars, validateVars, listVars, txnVars, remote, pendingSync>>

\* cacheExpenses: AsyncStorage stores the list
CacheWriteLands ==
  \E i \in DOMAIN tasks :
    /\ tasks[i].pc = "cacheWrite"
    /\ cachedExpenses' = UpsertById(tasks[i].read, tasks[i].expense)
    /\ tasks' = [tasks EXCEPT ![i].pc = "cacheWritten", ![i].read = <<>>]
    /\ UNCHANGED <<hookVars, serviceVars, syncVars, categoryVars, formVars, validateVars, incomeHook, expenseHook, txnVars, remote, pendingSync>>

\* await cacheExpenses resolves and the call returns
CacheWriteResolves ==
  \E i \in DOMAIN tasks :
    /\ tasks[i].pc = "cacheWritten"
    /\ tasks' = [tasks EXCEPT ![i].pc = "ended"]
    /\ UNCHANGED <<hookVars, serviceVars, syncVars, categoryVars, formVars, validateVars, listVars, txnVars, remote, pendingSync>>

\* cacheExpenses throws 'Failed to cache expenses': the catch block calls
\* addPendingSyncExpense
CacheWriteFails ==
  \E i \in DOMAIN tasks :
    /\ tasks[i].pc = "cacheWrite"
    /\ tasks' = [tasks EXCEPT ![i].pc = "pendingRead", ![i].read = <<>>,
                              ![i].thrown = CacheWriteFailed]
    /\ UNCHANGED <<hookVars, serviceVars, syncVars, categoryVars, formVars, validateVars, listVars, txnVars, remote, pendingSync>>

\* addPendingSyncExpense: getPendingSyncExpenses(), [] when the read fails
PendingRead ==
  \E i \in DOMAIN tasks, readOk \in BOOLEAN :
    /\ tasks[i].pc = "pendingRead"
    /\ tasks' = [tasks EXCEPT ![i].pc = "pendingWrite",
                              ![i].read = IF readOk THEN pendingSync ELSE <<>>]
    /\ UNCHANGED <<hookVars, serviceVars, syncVars, categoryVars, formVars, validateVars, listVars, txnVars, remote, pendingSync>>

\* addPendingSyncExpense: AsyncStorage stores the queue
PendingWriteLands ==
  \E i \in DOMAIN tasks :
    /\ tasks[i].pc = "pendingWrite"
    /\ pendingSync' = UpsertById(tasks[i].read, tasks[i].expense)
    /\ tasks' = [tasks EXCEPT ![i].pc = "pendingWritten", ![i].read = <<>>]
    /\ UNCHANGED <<hookVars, serviceVars, syncVars, categoryVars, formVars, validateVars, listVars, txnVars, remote>>

\* await setItem resolves, addPendingSyncExpense returns and the catch block
\* rethrows the error it caught
PendingWriteResolves ==
  \E i \in DOMAIN tasks :
    /\ tasks[i].pc = "pendingWritten"
    /\ tasks' = [tasks EXCEPT ![i].pc = "ended"]
    /\ UNCHANGED <<hookVars, serviceVars, syncVars, categoryVars, formVars, validateVars, listVars, txnVars, remote, pendingSync>>

\* await setItem rejects: addPendingSyncExpense throws its own error out of
\* the catch block
PendingWriteFails ==
  \E i \in DOMAIN tasks :
    /\ tasks[i].pc = "pendingWrite"
    /\ tasks' = [tasks EXCEPT ![i].pc = "ended", ![i].read = <<>>,
                              ![i].thrown = PendingWriteFailed]
    /\ UNCHANGED <<hookVars, serviceVars, syncVars, categoryVars, formVars, validateVars, listVars, txnVars, remote, pendingSync>>

InitStorage ==
  /\ call = IdleCall
  /\ res = NotCalled
  /\ incomeHook = InitialHook
  /\ expenseHook = InitialHook
  /\ cachedExpenses = <<>>
  /\ filters = NoFilters
  /\ searchQuery = <<>>
  /\ env = DefaultEnv
  /\ remote = EmptyRemote
  /\ pendingSync \in {<<>>, <<QueuedBefore>>}
  /\ tasks = [i \in Tasks |-> IdleTask]
  /\ FormAtRest
  /\ CategoriesAtRest
  /\ syncCall = IdleSync
  /\ HooksAtRest
  /\ ServiceAtRest

NextStorage ==
  \/ SaveExpenseToFirestore
  \/ UpdateExpenseInFirestore
  \/ RemoteWriteLands
  \/ RemoteWriteResolves
  \/ RemoteWriteFails
  \/ CacheRead
  \/ CacheWriteLands
  \/ CacheWriteResolves
  \/ CacheWriteFails
  \/ PendingRead
  \/ PendingWriteLands
  \/ PendingWriteResolves
  \/ PendingWriteFails

SpecStorage == InitStorage /\ [][NextStorage]_vars

(***************************************************************************)
(* Claims about the storage service                                        *)
(***************************************************************************)
\* the queue holds the expense, and no other entry with its id
QueuedOnce(queue, expense) ==
  /\ \E i \in 1..Len(queue) : queue[i] = expense
  /\ \A i \in 1..Len(queue) : queue[i].id = expense.id => queue[i] = expense

\* a call whose remote write failed ends in this step
EndsAfterRemoteFailure(i) ==
  tasks[i].pc # "ended" /\ tasks'[i].pc = "ended" /\ tasks'[i].remoteFailed

\* C10: when the remote write inside saveExpenseToFirestore or
\* updateExpenseInFirestore fails, then at the end of the call the expense is
\* in the pending-sync queue, in place of any earlier entry with its id, and
\* the error of the remote write is rethrown to the caller.
C10_QueuedAndRethrown ==
  [][\A i \in Tasks :
       EndsAfterRemoteFailure(i) =>
         /\ QueuedOnce(pendingSync', tasks'[i].expense)
         /\ tasks'[i].thrown = FirestoreError]_vars

(***************************************************************************)
(* The expense form: validateLabel, validateDescription,                   *)
(* validateExpenseForm                                                     *)
(***************************************************************************)
LABEL_MAX_LENGTH == 26
DESCRIPTION_MAX_WORDS == 50

\* expense validateLabel(label)
ValidateLabel(label) ==
  IF label = <<>> \/ Len(Trim(label)) = 0 THEN Invalid(<<"Label is required">>)
  ELSE IF Len(label) > LABEL_MAX_LENGTH
    THEN Invalid(<<"Label cannot exceed 26 characters">>)
  ELSE Valid

\* description.trim().split(/\s+/).filter(word => word.length > 0).length:
\* the number of places where a word starts
WordCount(s) ==
  Cardinality({i \in 1..Len(s) :
                 s[i] \notin WhiteSpace /\ (i = 1 \/ s[i - 1] \in WhiteSpace)})

\* expense validateDescription(description)
ValidateDescription(description) ==
  IF description = <<>> THEN Valid
  ELSE IF WordCount(description) > DESCRIPTION_MAX_WORDS
    THEN Invalid(<<"Description cannot exceed 50 words">>)
  ELSE Valid

\* category.trim().length === 0 for the category names of the model
BlankCategory(category) == category \in {"", " "}

\* validateExpenseForm with the label checked before the amount
MutValidateExpenseForm(expense) ==
  IF ~ValidateLabel(expense.label).isValid THEN ValidateLabel(expense.label)
  ELSE IF ~ValidateAmountExpense(expense.amount).isValid
    THEN ValidateAmountExpense(expense.amount)
  ELSE IF ~ValidateDescription(expense.description).isValid
    THEN ValidateDescription(expense.description)
  ELSE IF BlankCategory(expense.category) THEN Invalid(<<"Category is required">>)
  ELSE IF ~ValidateDateExpense(expense.date).isValid
    THEN ValidateDateExpense(expense.date)
  ELSE Valid

\* validateExpenseForm(expense)
ValidateExpenseForm(expense) ==
  IF ~ValidateAmountExpense(expense.amount).isValid
    THEN ValidateAmountExpense(expense.amount)
  ELSE IF ~ValidateLabel(expense.label).isValid THEN ValidateLabel(expense.label)
  ELSE IF ~ValidateDescription(expense.description).isValid
    THEN ValidateDescription(expense.description)
  ELSE IF BlankCategory(expense.category) THEN Invalid(<<"Category is required">>)
  ELSE IF ~ValidateDateExpense(expense.date).isValid
    THEN ValidateDateExpense(expense.date)
  ELSE Valid

(***************************************************************************)
(* useExpenseForm and duplicateExpense as a state machine: the user edits  *)
(* the fields, submits, and duplicates stored expenses; expenseService     *)
(* writes the collection.  Timestamps are left out of the documents.       *)
(***************************************************************************)
Users == {"A"}

WriteFailed == "Failed to save expense"
NotAuthenticated == "User must be authenticated to perform this action"
NoGeneralError == NewForm.general

\* n words of one letter, separated by spaces
Words(n) == [i \in 1..(2 * n - 1) |-> IF i % 2 = 1 THEN "a" ELSE " "]

FormAmountInputs ==
  {Str(<<>>, NaN), Str(<<"1", ".", "5", "0">>, Num(1, 15, -1)), Str(<<"-", "1">>, Num(-1, 1, 0))}
FormLabelInputs ==
  {<<" ", "a", " ">>, Repeat("a", LABEL_MAX_LENGTH), Repeat("a", LABEL_MAX_LENGTH + 1)}
FormDescriptionInputs == {<<>>, Words(DESCRIPTION_MAX_WORDS + 1)}
FormCategoryInputs == {"Other", " "}
FormDateInputs == {Today, IsoDate(2007, 12, 31)}

\* the expense the edit form is opened with
SeedExpense ==
  [id |-> 1, amount |-> Num(1, 15, -1), label |-> Repeat("a", LABEL_MAX_LENGTH - 6),
   description |-> <<>>, category |-> "Other", date |-> Today,
   receipts |-> <<>>, userId |-> "A"]

\* the real-time validation effect: a field that is filled in and not valid
FieldInError(f, field) ==
  CASE field = "amount" ->
         f.amount.text # <<>> /\ ~ValidateAmountExpense(ParseFloat(f.amount)).isValid
    [] field = "label" -> f.label # <<>> /\ ~ValidateLabel(f.label).isValid
    [] field = "description" ->
         f.description # <<>> /\ ~ValidateDescription(f.description).isValid
    [] field = "date" -> f.date # EmptyDateText /\ ~ValidateDateExpense(f.date).isValid

\* the real-time validation effect: the field errors and isValid
Revalidate(f) ==
  LET errs == {field \in {"amount", "label", "description", "date"} : FieldInError(f, field)}
      hasRequiredFields ==
        /\ f.amount.text # <<>>
        /\ f.label # <<>>
        /\ f.category # ""
        /\ f.date # EmptyDateText
  IN [f EXCEPT !.fieldErrors = errs, !.general = NoGeneralError,
               !.isValid = hasRequiredFields /\ errs = {}]

\* useExpenseForm({ initialExpense })
FormFor(expense) ==
  Revalidate([NewForm EXCEPT !.initialExpense = Some(expense),
                             !.amount = Str(NumberToString(expense.amount), expense.amount),
                             !.label = expense.label,
                             !.description = expense.description,
                             !.category = expense.category,
                             !.date = expense.date,
                             !.receipts = expense.receipts])

SetAmount ==
  \E value \in FormAmountInputs :
    /\ form' = Revalidate([form EXCEPT !.amount = value])
    /\ UNCHANGED <<hookVars, serviceVars, syncVars, categoryVars, validateVars, listVars, txnVars, storageVars, auth, expenseActions>>

SetLabel ==
  \E value \in FormLabelInputs :
    /\ form' = Revalidate([form EXCEPT !.label = value])
    /\ UNCHANGED <<hookVars, serviceVars, syncVars, categoryVars, validateVars, listVars, txnVars, storageVars, auth, expenseActions>>

SetDescription ==
  \E value \in FormDescriptionInputs :
    /\ form' = Revalidate([form EXCEPT !.description = value])
    /\ UNCHANGED <<hookVars, serviceVars, syncVars, categoryVars, validateVars, listVars, txnVars, storageVars, auth, expenseActions>>

SetCategory ==
  \E value \in FormCategoryInputs :
    /\ form' = Revalidate([form EXCEPT !.category = value])
    /\ UNCHANGED <<hookVars, serviceVars, syncVars, categoryVars, validateVars, listVars, txnVars, storageVars, auth, expenseActions>>

SetDate ==
  \E value \in FormDateInputs :
    /\ form' = Revalidate([form EXCEPT !.date = value])
    /\ UNCHANGED <<hookVars, serviceVars, syncVars, categoryVars, validateVars, listVars, txnVars, storageVars, auth, expenseActions>>

\* what submitForm hands to expenseService
ExpenseDataOf(f) ==
  [amount |-> ParseFloat(f.amount), label |-> Trim(f.label),
   description |-> Trim(f.description), category |-> f.category, date |-> f.date]

\* the catch and finally blocks of submitForm
SubmitFailed(f, message) ==
  [f EXCEPT !.general = message, !.fieldErrors = {}, !.isSubmitting = FALSE,
            !.pc = "idle"]

\* submitForm up to the first await
SubmitForm ==
  /\ form.isValid /\ ~form.isSubmitting
  /\ LET data == ExpenseDataOf(form)
         validation == ValidateExpenseForm(data)
     IN form' =
          IF ~validation.isValid
            THEN SubmitFailed(form, validation.errors[1])
          ELSE IF ~auth.some
            THEN SubmitFailed([form EXCEPT !.data = data], NotAuthenticated)
          ELSE [form EXCEPT !.data = data, !.fieldErrors = {},
                            !.general = NoGeneralError, !.isSubmitting = TRUE,
                            !.pc = IF form.initialExpense.some
                                     THEN "updateDoc" ELSE "addDoc"]
  /\ UNCHANGED <<hookVars, serviceVars, syncVars, categoryVars, validateVars, listVars, txnVars, storageVars, auth, expenseActions>>

\* the document createExpense hands to addDoc, under the id addDoc draws
NewDocument(id, data, receipts) ==
  [id |-> id, amount |-> data.amount, label |-> data.label,
   description |-> data.description, category |-> data.category,
   date |-> data.date, receipts |-> receipts, userId |-> auth.v]

\* the document after updateDoc(docRef, updateDataWithUser)
UpdatedDocument(old, data, receipts) ==
  [old EXCEPT !.amount = data.amount, !.label = data.label,
              !.description = data.description, !.category = data.category,
              !.date = data.date, !.receipts = receipts, !.userId = auth.v]

FreeIds == {id \in StorageIds : ~remote[id].some}

\* createExpense: addDoc resolves
FormAddDoc ==
  /\ form.pc = "addDoc"
  /\ \E id \in FreeIds :
       remote' = [remote EXCEPT ![id] = Some(NewDocument(id, form.data, form.receipts))]
  /\ form' = [form EXCEPT !.pc = "getDoc"]
  /\ UNCHANGED <<hookVars, serviceVars, syncVars, categoryVars, validateVars, listVars, txnVars, pendingSync, tasks, auth, expenseActions>>

\* updateExpense: updateDoc resolves; the document exists
FormUpdateDoc ==
  /\ form.pc = "updateDoc"
  /\ remote[form.initialExpense.v.id].some
  /\ remote' = [remote EXCEPT ![form.initialExpense.v.id] =
                  Some(UpdatedDocument(remote[form.initialExpense.v.id].v, form.data,
                                       form.receipts))]
  /\ form' = [form EXCEPT !.pc = "getDoc"]
  /\ UNCHANGED <<hookVars, serviceVars, syncVars, categoryVars, validateVars, listVars, txnVars, pendingSync, tasks, auth, expenseActions>>

\* addDoc or updateDoc rejects: createExpense / updateExpense throws
FormWriteFails ==
  /\ form.pc \in {"addDoc", "updateDoc"}
  /\ form' = SubmitFailed(form, WriteFailed)
  /\ UNCHANGED <<hookVars, serviceVars, syncVars, categoryVars, validateVars, listVars, txnVars, storageVars, auth, expenseActions>>

\* the getDoc after the write resolves (onSuccess) or rejects (the service
\* throws although the document is written)
FormGetDoc ==
  \E ok \in BOOLEAN :
    /\ form.pc = "getDoc"
    /\ form' = IF ok THEN [form EXCEPT !.isSubmitting = FALSE, !.pc = "idle"]
               ELSE SubmitFailed(form, WriteFailed)
    /\ UNCHANGED <<hookVars, serviceVars, syncVars, categoryVars, validateVars, listVars, txnVars, storageVars, auth, expenseActions>>

CopySuffix == <<" ", "(", "C", "o", "p", "y", ")">>
DuplicateFailed == "Failed to duplicate expense"

StoredExpenses == {remote[id].v : id \in {i \in StorageIds : remote[i].some}}

\* duplicateExpense(expense) up to the first await
DuplicateExpense ==
  \E expense \in StoredExpenses :
    /\ expenseActions.pc = "idle"
    /\ LET data == [amount |-> expense.amount, label |-> expense.label \o CopySuffix,
                    description |-> expense.description,
                    category |-> expense.category, date |-> Today]
       IN expenseActions' =
            IF auth.some
              THEN [expenseActions EXCEPT !.pc = "addDoc", !.data = data,
                                          !.error = NoError]
              ELSE [expenseActions EXCEPT !.error = NotAuthenticated]
    /\ UNCHANGED <<hookVars, serviceVars, syncVars, categoryVars, validateVars, listVars, txnVars, storageVars, auth, form>>

\* createExpense: addDoc resolves
DuplicateAddDoc ==
  /\ expenseActions.pc = "addDoc"
  /\ \E id \in FreeIds :
       remote' = [remote EXCEPT ![id] = Some(NewDocument(id, expenseActions.data, <<>>))]
  /\ expenseActions' = [expenseActions EXCEPT !.pc = "getDoc"]
  /\ UNCHANGED <<hookVars, serviceVars, syncVars, categoryVars, validateVars, listVars, txnVars, pendingSync, tasks, auth, form>>

\* addDoc rejects
DuplicateWriteFails ==
  /\ expenseActions.pc = "addDoc"
  /\ expenseActions' = [expenseActions EXCEPT !.pc = "idle", !.data = NoDataYet,
                                              !.error = DuplicateFailed]
  /\ UNCHANGED <<hookVars, serviceVars, syncVars, categoryVars, validateVars, listVars, txnVars, storageVars, auth, form>>

\* the getDoc after addDoc resolves or rejects
DuplicateGetDoc ==
  \E ok \in BOOLEAN :
    /\ expenseActions.pc = "getDoc"
    /\ expenseActions' = [expenseActions EXCEPT
                            !.pc = "idle", !.data = NoDataYet,
                            !.error = IF ok THEN NoError ELSE DuplicateFailed]
    /\ UNCHANGED <<hookVars, serviceVars, syncVars, categoryVars, validateVars, listVars, txnVars, storageVars, auth, form>>

InitForm ==
  /\ call = IdleCall
  /\ res = NotCalled
  /\ incomeHook = InitialHook
  /\ expenseHook = InitialHook
  /\ cachedExpenses = <<>>
  /\ filters = NoFilters
  /\ searchQuery = <<>>
  /\ env = DefaultEnv
  /\ pendingSync = <<>>
  /\ tasks = <<IdleTask>>
  /\ auth \in {None} \cup {Some(u) : u \in Users}
  /\ \/ remote = EmptyRemote /\ form = NewForm
     \/ /\ remote = [EmptyRemote EXCEPT ![SeedExpense.id] = Some(SeedExpense)]
        /\ form \in {NewForm, FormFor(SeedExpense)}
  /\ expenseActions = IdleActions
  /\ CategoriesAtRest
  /\ syncCall = IdleSync
  /\ HooksAtRest
  /\ ServiceAtRest

NextForm ==
  \/ SetAmount
  \/ SetLabel
  \/ SetDescription
  \/ SetCategory
  \/ SetDate
  \/ SubmitForm
  \/ FormAddDoc
  \/ FormUpdateDoc
  \/ FormWriteFails
  \/ FormGetDoc
  \/ DuplicateExpense
  \/ DuplicateAddDoc
  \/ DuplicateWriteFails
  \/ DuplicateGetDoc

SpecForm == InitForm /\ [][NextForm]_vars

(***************************************************************************)
(* Claims about the form and the duplicate action                          *)
(***************************************************************************)
\* the pending-sync queue holds the record the form submitted
SubmittedIsQueued ==
  \E i \in 1..Len(pendingSync) :
    /\ pendingSync[i].label = form.data.label
    /\ pendingSync[i].amount = form.data.amount

\* C11: when submitForm fails to write the expense remotely (createExpense
\* or updateExpense throws), the record is in the pending-sync queue.
C11_FailedSubmitQueued ==
  (form.pc = "idle" /\ form.general \in {WriteFailed, NotAuthenticated}) =>
    SubmittedIsQueued

\* C20: every expense written through submitForm or duplicateExpense has a
\* non-empty label of at most 26 characters.
C20_StoredLabels ==
  \A expense \in StoredExpenses :
    Len(expense.label) >= 1 /\ Len(expense.label) <= 26

\* ---------------------------------------------------------------------------
\* Categories: useCategories over categoryService and the categories cache
\* ---------------------------------------------------------------------------

\* the UTF-16 code units of the characters of the category names
CharCode(c) ==
  CASE c = " " -> 32
    [] c = "B" -> 66
    [] c = "O" -> 79
    [] c = "a" -> 97
    [] c = "e" -> 101
    [] c = "h" -> 104
    [] c = "r" -> 114
    [] c = "t" -> 116
    [] OTHER -> 0

\* the order of Firestore string values
RECURSIVE NameLess(_, _)
NameLess(a, b) ==
  IF b = <<>> THEN FALSE
  ELSE IF a = <<>> THEN TRUE
  ELSE IF CharCode(Head(a)) # CharCode(Head(b))
    THEN CharCode(Head(a)) < CharCode(Head(b))
  ELSE NameLess(Tail(a), Tail(b))

\* orderBy('name', 'asc'), documents of equal name in the order of their ids
CategoryBefore(a, b) ==
  NameLess(a.name, b.name) \/ (a.name = b.name /\ a.id < b.id)

RECURSIVE OrderByName(_)
OrderByName(docs) ==
  IF docs = {} THEN <<>>
  ELSE LET first == CHOOSE d \in docs : \A e \in docs \ {d} : CategoryBefore(d, e)
       IN <<first>> \o OrderByName(docs \ {first})

OtherName == <<"O", "t", "h", "e", "r">>
CustomName == <<"a">>

\* the documents of the collection, and those of one user
CategoryDocsIn(collection) ==
  {collection[id].v : id \in {i \in CategoryIds : collection[i].some}}
CategoriesOf(collection, userId) ==
  {d \in CategoryDocsIn(collection) : d.userId = userId}

\* categoryService.getCategories of the signed-in user
GetCategories == OrderByName(CategoriesOf(remoteCategories, auth.v))

CategoriesFetchFailed == "Failed to load categories"
CategoriesCacheFailed == "Failed to cache categories"

\* the catch block of loadCategories
CategoryLoadFailed(hook, message, cached) ==
  IF Len(cached) > 0
    THEN [hook EXCEPT !.categories = cached, !.error = CachedDataMessage]
    ELSE [hook EXCEPT !.error = message]

\* loadCategories with its outcome: "ok", "fetchFail" (getCategories throws),
\* "cacheFail" (cacheCategories throws); readOk: whether getCachedCategories
\* can read the cache (it answers [] when it cannot)
LoadCategoriesStep(outcome, readOk) ==
  LET cacheNow == IF outcome = "ok" THEN GetCategories ELSE cachedCategories
      cached == IF readOk THEN cacheNow ELSE <<>>
  IN /\ cachedCategories' = cacheNow
     /\ categoryHook' =
          IF outcome = "fetchFail"
            THEN CategoryLoadFailed([categoryHook EXCEPT !.error = "null"],
                                    CategoriesFetchFailed, cached)
          ELSE IF outcome = "cacheFail"
            THEN CategoryLoadFailed([categories |-> GetCategories, error |-> "null"],
                                    CategoriesCacheFailed, cached)
          ELSE [categories |-> GetCategories, error |-> "null"]

LoadCategories ==
  \E outcome \in {"ok", "fetchFail", "cacheFail"}, readOk \in BOOLEAN :
    /\ ~auth.some => outcome = "fetchFail"
    /\ LoadCategoriesStep(outcome, readOk)
    /\ UNCHANGED <<hookVars, serviceVars, syncVars, remoteCategories, categoryCalls, formVars, listVars,
                   validateVars, txnVars, storageVars>>

\* a category document
CategoryDoc(id, name, isDefault, userId) ==
  [id |-> id, name |-> name, isDefault |-> isDefault, userId |-> userId]

\* the collections the fetches start from: none, the default 'Other', and
\* 'Other' with a custom category
SeedCategories ==
  {NoCategories,
   [NoCategories EXCEPT ![1] = Some(CategoryDoc(1, OtherName, TRUE, "A"))],
   [NoCategories EXCEPT ![1] = Some(CategoryDoc(1, OtherName, TRUE, "A")),
                        ![2] = Some(CategoryDoc(2, CustomName, FALSE, "A"))]}

\* the categories cache as an earlier session left it
SeedCategoryCaches ==
  {<<>>, <<CategoryDoc(2, CustomName, FALSE, "A")>>}

InitFetch ==
  /\ call = IdleCall
  /\ res = NotCalled
  /\ incomeHook = InitialHook
  /\ expenseHook = InitialHook
  /\ cachedExpenses = <<>>
  /\ filters = NoFilters
  /\ searchQuery = <<>>
  /\ env = DefaultEnv
  /\ remote = EmptyRemote
  /\ pendingSync = <<>>
  /\ tasks = <<IdleTask>>
  /\ auth \in {None, Some("A")}
  /\ form = NewForm
  /\ expenseActions = IdleActions
  /\ categoryHook = InitialCategoryHook
  /\ remoteCategories \in SeedCategories
  /\ cachedCategories \in SeedCategoryCaches
  /\ categoryCalls = <<IdleCategoryCall>>
  /\ syncCall = IdleSync
  /\ HooksAtRest
  /\ ServiceAtRest

NextFetch ==
  \/ ExpenseLoad
  \/ AddExpenseToList
  \/ LoadCategories

SpecFetch == InitFetch /\ [][NextFetch]_vars

\* the first-page fetch of useExpenseList fails
ExpenseFetchFails(readOk) ==
  LoadExpensesStep(1, FALSE, "fetchFail", <<>>, 0, readOk) /\ UNCHANGED <<hookVars, serviceVars, syncVars, categoryVars>>

\* the fetch of useCategories fails
CategoryFetchFails(readOk) ==
  LoadCategoriesStep("fetchFail", readOk) /\ UNCHANGED <<hookVars, serviceVars, syncVars, listVars>>

\* C12 as stated: when the first-page fetch of useExpenseList or the fetch of
\* useCategories fails, the list becomes the cached entries and the error the
\* cached-data message if the cache holds an entry; otherwise the list is
\* left as it was and the error is the failure's message.
C12_CacheFallbackAsStated ==
  [][/\ (\E readOk \in BOOLEAN : ExpenseFetchFails(readOk)) =>
         IF Len(cachedExpenses) > 0
           THEN /\ expenseHook'.items = cachedExpenses
                /\ expenseHook'.error = CachedDataMessage
           ELSE /\ expenseHook'.items = expenseHook.items
                /\ expenseHook'.error = FetchFailed
     /\ (\E readOk \in BOOLEAN : CategoryFetchFails(readOk)) =>
         IF Len(cachedCategories) > 0
           THEN /\ categoryHook'.categories = cachedCategories
                /\ categoryHook'.error = CachedDataMessage
           ELSE /\ categoryHook'.categories = categoryHook.categories
                /\ categoryHook'.error = CategoriesFetchFailed]_vars

\* C12 amended: the cached entries replace the list when the cache holds an
\* entry and can be read; when the cache is empty or cannot be read the list
\* is left as it was and the error is the failure's message.
C12_CacheFallback ==
  [][/\ \A readOk \in BOOLEAN :
         ExpenseFetchFails(readOk) =>
           IF readOk /\ Len(cachedExpenses) > 0
             THEN /\ expenseHook'.items = cachedExpenses
                  /\ expenseHook'.error = CachedDataMessage
             ELSE /\ expenseHook'.items = expenseHook.items
                  /\ expenseHook'.error = FetchFailed
     /\ \A readOk \in BOOLEAN :
         CategoryFetchFails(readOk) =>
           IF readOk /\ Len(cachedCategories) > 0
             THEN /\ categoryHook'.categories = cachedCategories
                  /\ categoryHook'.error = CachedDataMessage
             ELSE /\ categoryHook'.categories = categoryHook.categories
                  /\ categoryHook'.error = CategoriesFetchFailed]_vars

\* both lists show cached entries after failed fetches
C12_Witness ==
  /\ expenseHook.error = CachedDataMessage
  /\ Len(cachedExpenses) > 0
  /\ expenseHook.items = cachedExpenses
  /\ categoryHook.error = CachedDataMessage
  /\ Len(cachedCategories) > 0
  /\ categoryHook.categories = cachedCategories

\* ---------------------------------------------------------------------------
\* expenseStorageService: deleteExpenseFromFirestore and syncWithFirestore
\* ---------------------------------------------------------------------------

\* list.filter(e => e.id !== id)
WithoutId(list, id) == SelectSeq(list, LAMBDA e : e.id # id)

\* deleteExpenseFromFirestore(expense.id), up to await deleteDoc(...)
DeleteExpenseFromFirestore ==
  \E i \in DOMAIN tasks, expense \in StorageDocs :
    /\ Idle(i)
    /\ SyncAtRest
    /\ tasks' = [tasks EXCEPT ![i] =
                   [op |-> "delete", expense |-> expense, pc |-> "remoteDelete",
                    read |-> <<>>, thrown |-> NothingThrown, remoteFailed |-> FALSE]]
    /\ UNCHANGED <<hookVars, serviceVars, syncVars, categoryVars, formVars, validateVars, listVars, txnVars,
                   remote, pendingSync>>

\* deleteDoc: the server deletes the document (also when there is none)
RemoteDeleteLands ==
  \E i \in DOMAIN tasks :
    /\ tasks[i].pc = "remoteDelete"
    /\ remote' = [remote EXCEPT ![tasks[i].expense.id] = None]
    /\ tasks' = [tasks EXCEPT ![i].pc = "remoteDeleted"]
    /\ UNCHANGED <<hookVars, serviceVars, syncVars, categoryVars, formVars, validateVars, listVars, txnVars,
                   pendingSync>>

\* await deleteDoc resolves: removeCachedExpense reads the cache, [] when the
\* read fails
RemoteDeleteResolves ==
  \E i \in DOMAIN tasks, readOk \in BOOLEAN :
    /\ tasks[i].pc = "remoteDeleted"
    /\ tasks' = [tasks EXCEPT ![i].pc = "uncacheWrite",
                              ![i].read = IF readOk THEN cachedExpenses ELSE <<>>]
    /\ UNCHANGED <<hookVars, serviceVars, syncVars, categoryVars, formVars, validateVars, listVars, txnVars,
                   remote, pendingSync>>

\* await deleteDoc rejects: the catch block rethrows
RemoteDeleteFails ==
  \E i \in DOMAIN tasks :
    /\ tasks[i].pc = "remoteDelete"
    /\ tasks' = [tasks EXCEPT ![i].pc = "ended", ![i].thrown = FirestoreError,
                              ![i].remoteFailed = TRUE]
    /\ UNCHANGED <<hookVars, serviceVars, syncVars, categoryVars, formVars, validateVars, listVars, txnVars,
                   remote, pendingSync>>

\* removeCachedExpense: cacheExpenses(filtered) stores the list and the call
\* returns
RemoveCachedExpense ==
  \E i \in DOMAIN tasks :
    /\ tasks[i].pc = "uncacheWrite"
    /\ cachedExpenses' = WithoutId(tasks[i].read, tasks[i].expense.id)
    /\ tasks' = [tasks EXCEPT ![i].pc = "ended", ![i].read = <<>>]
    /\ UNCHANGED <<hookVars, serviceVars, syncVars, categoryVars, formVars, validateVars, incomeHook, expenseHook,
                   txnVars, remote, pendingSync>>

\* removeCachedExpense: cacheExpenses throws, the catch block rethrows
RemoveCachedExpenseFails ==
  \E i \in DOMAIN tasks :
    /\ tasks[i].pc = "uncacheWrite"
    /\ tasks' = [tasks EXCEPT ![i].pc = "ended", ![i].read = <<>>,
                              ![i].thrown = CacheWriteFailed]
    /\ UNCHANGED <<hookVars, serviceVars, syncVars, categoryVars, formVars, validateVars, listVars, txnVars,
                   remote, pendingSync>>

\* syncWithFirestore(), up to the loop: getPendingSyncExpenses(), [] when the
\* read fails
SyncWithFirestore ==
  \E readOk \in BOOLEAN :
    /\ SyncAtRest
    /\ \A i \in DOMAIN tasks : Idle(i)
    /\ syncCall' = [pc |-> "next", k |-> 1, saved |-> <<>>, read |-> <<>>,
                    pending |-> IF readOk THEN pendingSync ELSE <<>>]
    /\ UNCHANGED <<hookVars, serviceVars, categoryVars, formVars, validateVars, listVars, txnVars, storageVars>>

\* the loop takes the next expense and calls saveExpenseToFirestore(expense)
SyncSavesNext ==
  /\ syncCall.pc = "next"
  /\ syncCall.k <= Len(syncCall.pending)
  /\ StartCall(1, "save", syncCall.pending[syncCall.k])
  /\ syncCall' = [syncCall EXCEPT !.pc = "saving"]
  /\ UNCHANGED <<hookVars, serviceVars, categoryVars, formVars, validateVars, listVars, txnVars, remote, pendingSync>>

\* the loop goes on with the next expense, after recording how the save ended
NextInLoop(saved) ==
  [syncCall EXCEPT !.pc = "next", !.k = syncCall.k + 1, !.read = <<>>,
                   !.saved = Append(syncCall.saved, saved)]

\* saveExpenseToFirestore returns: removePendingSyncExpense reads the queue,
\* [] when the read fails
SyncSaveReturns ==
  \E readOk \in BOOLEAN :
    /\ syncCall.pc = "saving"
    /\ tasks[1].pc = "ended"
    /\ tasks[1].thrown = NothingThrown
    /\ syncCall' = [syncCall EXCEPT !.pc = "removeWrite",
                                    !.read = IF readOk THEN pendingSync ELSE <<>>]
    /\ UNCHANGED <<hookVars, serviceVars, categoryVars, formVars, validateVars, listVars, txnVars, storageVars>>

\* saveExpenseToFirestore throws: the catch block of the loop logs the error
SyncSaveThrows ==
  /\ syncCall.pc = "saving"
  /\ tasks[1].pc = "ended"
  /\ tasks[1].thrown # NothingThrown
  /\ syncCall' = NextInLoop(FALSE)
  /\ UNCHANGED <<hookVars, serviceVars, categoryVars, formVars, validateVars, listVars, txnVars, storageVars>>

\* removePendingSyncExpense: AsyncStorage stores the filtered queue
RemovePendingLands ==
  /\ syncCall.pc = "removeWrite"
  /\ pendingSync' = WithoutId(syncCall.read, syncCall.pending[syncCall.k].id)
  /\ syncCall' = NextInLoop(TRUE)
  /\ UNCHANGED <<hookVars, serviceVars, categoryVars, formVars, validateVars, listVars, txnVars, remote, tasks>>

\* removePendingSyncExpense throws: the catch block of the loop logs the error
RemovePendingFails ==
  /\ syncCall.pc = "removeWrite"
  /\ syncCall' = NextInLoop(TRUE)
  /\ UNCHANGED <<hookVars, serviceVars, categoryVars, formVars, validateVars, listVars, txnVars, storageVars>>

\* after the loop: updateLastSyncTimestamp(), and syncWithFirestore returns
\* or throws
SyncReturns ==
  /\ syncCall.pc = "next"
  /\ syncCall.k > Len(syncCall.pending)
  /\ syncCall' = [syncCall EXCEPT !.pc = "ended"]
  /\ UNCHANGED <<hookVars, serviceVars, categoryVars, formVars, validateVars, listVars, txnVars, storageVars>>

\* an offline edit of expense 2, queued by an earlier call
QueuedSecond ==
  [id |-> 2, amount |-> 100, label |-> <<"B">>, description |-> <<>>,
   category |-> "Food", date |-> IsoDate(2024, 1, 2)]

InitSync ==
  /\ call = IdleCall
  /\ res = NotCalled
  /\ incomeHook = InitialHook
  /\ expenseHook = InitialHook
  /\ cachedExpenses = <<>>
  /\ filters = NoFilters
  /\ searchQuery = <<>>
  /\ env = DefaultEnv
  /\ remote = EmptyRemote
  /\ pendingSync \in {<<>>, <<QueuedBefore, QueuedSecond>>}
  /\ tasks = <<IdleTask>>
  /\ FormAtRest
  /\ CategoriesAtRest
  /\ syncCall = IdleSync
  /\ HooksAtRest
  /\ ServiceAtRest

NextSync ==
  \/ SaveExpenseToFirestore
  \/ UpdateExpenseInFirestore
  \/ RemoteWriteLands
  \/ RemoteWriteResolves
  \/ RemoteWriteFails
  \/ CacheRead
  \/ CacheWriteLands
  \/ CacheWriteResolves
  \/ CacheWriteFails
  \/ PendingRead
  \/ PendingWriteLands
  \/ PendingWriteResolves
  \/ PendingWriteFails
  \/ DeleteExpenseFromFirestore
  \/ RemoteDeleteLands
  \/ RemoteDeleteResolves
  \/ RemoteDeleteFails
  \/ RemoveCachedExpense
  \/ RemoveCachedExpenseFails
  \/ SyncWithFirestore
  \/ SyncSavesNext
  \/ SyncSaveReturns
  \/ SyncSaveThrows
  \/ RemovePendingLands
  \/ RemovePendingFails
  \/ SyncReturns

SpecSync == InitSync /\ [][NextSync]_vars

\* the number of entries of the queue with the id
QueuedCount(queue, id) == Cardinality({i \in 1..Len(queue) : queue[i].id = id})

\* C13: in every state reached by calls of saveExpenseToFirestore,
\* updateExpenseInFirestore, deleteExpenseFromFirestore and syncWithFirestore,
\* no expense whose latest write or delete was acknowledged by the remote
\* store is in the pending-sync queue.  (The calls run one after the other
\* here, so the call a task slot shows as ended is the latest one.)
C13_QueueOnlyUnacknowledged ==
  \A i \in DOMAIN tasks :
    (SyncAtRest /\ tasks[i].pc = "ended" /\ ~tasks[i].remoteFailed) =>
      QueuedCount(pendingSync, tasks[i].expense.id) = 0

\* C14: when syncWithFirestore returns, every expense that was pending at its
\* start and whose save succeeded is no longer queued, and every one whose
\* save failed is still queued exactly once; the loop went through all of
\* them.
C14_SyncOutcome ==
  [][(syncCall.pc # "ended" /\ syncCall'.pc = "ended") =>
       /\ Len(syncCall'.saved) = Len(syncCall'.pending)
       /\ \A k \in 1..Len(syncCall'.pending) :
            QueuedCount(pendingSync', syncCall'.pending[k].id) =
              IF syncCall'.saved[k] THEN 0 ELSE 1]_vars

\* the device holds offline edits of stored expenses; only
\* deleteExpenseFromFirestore and syncWithFirestore are called
InitResync ==
  /\ call = IdleCall
  /\ res = NotCalled
  /\ incomeHook = InitialHook
  /\ expenseHook = InitialHook
  /\ cachedExpenses \in {<<>>, <<QueuedBefore>>}
  /\ filters = NoFilters
  /\ searchQuery = <<>>
  /\ env = DefaultEnv
  /\ remote \in {[id \in StorageIds |-> IF id \in present
                                          THEN Some(CHOOSE d \in StorageDocs : d.id = id)
                                          ELSE None] : present \in SUBSET StorageIds}
  /\ pendingSync \in {<<>>, <<QueuedBefore>>, <<QueuedBefore, QueuedSecond>>}
  /\ tasks = [i \in Tasks |-> IdleTask]
  /\ FormAtRest
  /\ CategoriesAtRest
  /\ syncCall = IdleSync
  /\ HooksAtRest
  /\ ServiceAtRest

NextResync ==
  \/ RemoteWriteLands
  \/ RemoteWriteResolves
  \/ RemoteWriteFails
  \/ CacheRead
  \/ CacheWriteLands
  \/ CacheWriteResolves
  \/ CacheWriteFails
  \/ PendingRead
  \/ PendingWriteLands
  \/ PendingWriteResolves
  \/ PendingWriteFails
  \/ DeleteExpenseFromFirestore
  \/ RemoteDeleteLands
  \/ RemoteDeleteResolves
  \/ RemoteDeleteFails
  \/ RemoveCachedExpense
  \/ RemoveCachedExpenseFails
  \/ SyncWithFirestore
  \/ SyncSavesNext
  \/ SyncSaveReturns
  \/ SyncSaveThrows
  \/ RemovePendingLands
  \/ RemovePendingFails
  \/ SyncReturns

SpecResync == InitResync /\ [][NextResync]_vars

\* the call of slot i was deleteExpenseFromFirestore(id) and has returned
\* without throwing
DeleteReturnedFor(i, id) ==
  /\ tasks[i].op = "delete" /\ tasks[i].expense.id = id
  /\ tasks[i].pc = "ended" /\ tasks[i].thrown = NothingThrown

\* the saveExpenseToFirestore call of the syncWithFirestore loop has written
\* the expense of the id to the collection or to the cache
SyncWrote(id) ==
  /\ syncCall.pc = "saving"
  /\ tasks[1].op = "save" /\ tasks[1].expense.id = id
  /\ tasks[1].pc \in {"remoteWritten", "cacheWritten"}

\* C28: once deleteExpenseFromFirestore(id) has succeeded, no later
\* syncWithFirestore writes an expense of that id to the remote collection or
\* to the local cache again.  (A sync starts only when no call is running, so
\* a delete that a slot shows as returned while the sync saves had returned
\* before the sync began.)
C28_DeletedStaysDeleted ==
  \A i \in DOMAIN tasks, id \in StorageIds :
    DeleteReturnedFor(i, id) => ~SyncWrote(id)

\* ---------------------------------------------------------------------------
\* useCategories: createCategory, updateCategory, deleteCategory
\* ---------------------------------------------------------------------------

MaxCategoryCalls == 2
CategorySlots == 1..MaxCategoryCalls

\* the names typed into the category screen
CategoryNameInputs == {CustomName, <<"B">>}

\* categories.map(cat => cat.name)
NamesOf(categories) == [i \in 1..Len(categories) |-> categories[i].name]

CategoryCallIdle(i) == categoryCalls[i].pc \in {"idle", "ended"}

\* a call that has returned, with what it returned (true or a category
\* against false or null)
EndedCategoryCall(op, ok) ==
  [op |-> op, pc |-> "ended", ok |-> ok, id |-> 0, name |-> <<>>]

\* a call that returns before any await, with the error it sets
CategoryCallRejected(i, op, message) ==
  /\ categoryCalls' = [categoryCalls EXCEPT ![i] = EndedCategoryCall(op, FALSE)]
  /\ categoryHook' = [categoryHook EXCEPT !.error = message]

\* a call that goes on to its await, with the error cleared
CategoryCallAwaits(i, op, id, name) ==
  /\ categoryCalls' = [categoryCalls EXCEPT ![i] =
                         [op |-> op, pc |-> "await", ok |-> FALSE, id |-> id, name |-> name]]
  /\ categoryHook' = [categoryHook EXCEPT !.error = "null"]

\* createCategory({name}) up to await categoryService.createCategory
CreateCategory ==
  \E i \in CategorySlots, name \in CategoryNameInputs :
    /\ CategoryCallIdle(i)
    /\ LET validation ==
             ValidateCategoryNameExpense(name, NamesOf(categoryHook.categories))
       IN IF ~validation.isValid
            THEN CategoryCallRejected(i, "create", validation.errors[1])
            ELSE CategoryCallAwaits(i, "create", 0, name)
    /\ UNCHANGED <<hookVars, serviceVars, syncVars, remoteCategories, cachedCategories, formVars, validateVars,
                   listVars, txnVars, storageVars>>

\* updateCategory({id, name}) up to await categoryService.updateCategory
UpdateCategory ==
  \E i \in CategorySlots, id \in CategoryIds, name \in CategoryNameInputs :
    /\ CategoryCallIdle(i)
    /\ LET others == SelectSeq(categoryHook.categories, LAMBDA cat : cat.id # id)
           validation == ValidateCategoryNameExpense(name, NamesOf(others))
       IN IF ~validation.isValid
            THEN CategoryCallRejected(i, "update", validation.errors[1])
            ELSE CategoryCallAwaits(i, "update", id, name)
    /\ UNCHANGED <<hookVars, serviceVars, syncVars, remoteCategories, cachedCategories, formVars, validateVars,
                   listVars, txnVars, storageVars>>

\* deleteCategory(id) without the test of isDefault
MutDeleteCategory ==
  \E i \in CategorySlots, id \in CategoryIds :
    /\ CategoryCallIdle(i)
    /\ LET found == SelectSeq(categoryHook.categories, LAMBDA cat : cat.id = id)
       IN IF found = <<>>
            THEN CategoryCallRejected(i, "delete", "Category not found")
          ELSE CategoryCallAwaits(i, "delete", id, found[1].name)
    /\ UNCHANGED <<hookVars, serviceVars, syncVars, remoteCategories, cachedCategories, formVars, validateVars,
                   listVars, txnVars, storageVars>>

\* deleteCategory(id) up to await categoryService.deleteCategory
DeleteCategory ==
  \E i \in CategorySlots, id \in CategoryIds :
    /\ CategoryCallIdle(i)
    /\ LET found == SelectSeq(categoryHook.categories, LAMBDA cat : cat.id = id)
       IN IF found = <<>>
            THEN CategoryCallRejected(i, "delete", "Category not found")
          ELSE IF found[1].isDefault
            THEN CategoryCallRejected(i, "delete", "Cannot delete default categories")
          ELSE CategoryCallAwaits(i, "delete", id, found[1].name)
    /\ UNCHANGED <<hookVars, serviceVars, syncVars, remoteCategories, cachedCategories, formVars, validateVars,
                   listVars, txnVars, storageVars>>

CategoryCallReturns(i, ok) ==
  categoryCalls' = [categoryCalls EXCEPT ![i] = EndedCategoryCall(categoryCalls[i].op, ok)]

FreeCategoryIds == {id \in CategoryIds : ~remoteCategories[id].some}

\* categoryService.createCategory: addDoc and getDoc, then
\* setCategories(prev => [...prev, newCategory])
CreateCategoryResolves ==
  \E i \in CategorySlots, id \in FreeCategoryIds :
    /\ categoryCalls[i].op = "create" /\ categoryCalls[i].pc = "await"
    /\ auth.some
    /\ \A other \in FreeCategoryIds : id <= other
    /\ LET newCategory == CategoryDoc(id, categoryCalls[i].name, FALSE, auth.v)
       IN /\ remoteCategories' = [remoteCategories EXCEPT ![id] = Some(newCategory)]
          /\ categoryHook' =
               [categoryHook EXCEPT !.categories = Append(categoryHook.categories, newCategory)]
    /\ CategoryCallReturns(i, TRUE)
    /\ UNCHANGED <<hookVars, serviceVars, syncVars, cachedCategories, formVars, validateVars, listVars, txnVars,
                   storageVars>>

\* categoryService.updateCategory: updateDoc (the document has to exist) and
\* getDoc, then setCategories(prev => prev.map(...))
UpdateCategoryResolves ==
  \E i \in CategorySlots :
    /\ categoryCalls[i].op = "update" /\ categoryCalls[i].pc = "await"
    /\ auth.some
    /\ remoteCategories[categoryCalls[i].id].some
    /\ LET id == categoryCalls[i].id
           updatedCategory ==
             [remoteCategories[id].v EXCEPT !.name = categoryCalls[i].name,
                                            !.userId = auth.v]
       IN /\ remoteCategories' = [remoteCategories EXCEPT ![id] = Some(updatedCategory)]
          /\ categoryHook' =
               [categoryHook EXCEPT !.categories =
                  [k \in 1..Len(categoryHook.categories) |->
                     IF categoryHook.categories[k].id = id
                       THEN updatedCategory ELSE categoryHook.categories[k]]]
    /\ CategoryCallReturns(i, TRUE)
    /\ UNCHANGED <<hookVars, serviceVars, syncVars, cachedCategories, formVars, validateVars, listVars, txnVars,
                   storageVars>>

\* categoryService.deleteCategory: deleteDoc, then
\* setCategories(prev => prev.filter(cat => cat.id !== categoryId))
DeleteCategoryResolves ==
  \E i \in CategorySlots :
    /\ categoryCalls[i].op = "delete" /\ categoryCalls[i].pc = "await"
    /\ remoteCategories' = [remoteCategories EXCEPT ![categoryCalls[i].id] = None]
    /\ categoryHook' =
         [categoryHook EXCEPT !.categories =
            SelectSeq(categoryHook.categories, LAMBDA cat : cat.id # categoryCalls[i].id)]
    /\ CategoryCallReturns(i, TRUE)
    /\ UNCHANGED <<hookVars, serviceVars, syncVars, cachedCategories, formVars, validateVars, listVars, txnVars,
                   storageVars>>

\* the service call throws: the catch block sets the error
CategoryCallFails ==
  \E i \in CategorySlots :
    /\ categoryCalls[i].pc = "await"
    /\ categoryHook' = [categoryHook EXCEPT !.error = FirestoreError]
    /\ CategoryCallReturns(i, FALSE)
    /\ UNCHANGED <<hookVars, serviceVars, syncVars, remoteCategories, cachedCategories, formVars, validateVars,
                   listVars, txnVars, storageVars>>

\* an expense with the category picked in the category selector
CategorisedExpense(id, name) == [SeedExpense EXCEPT !.id = id, !.category = name]

\* the expense form is submitted with a category picked from the list of the
\* hook: createExpense for a new id, updateExpense for a stored one
SubmitWithCategory ==
  \E id \in StorageIds, k \in 1..Len(categoryHook.categories) :
    /\ auth.some
    /\ remote' = [remote EXCEPT ![id] =
                    Some(CategorisedExpense(id, categoryHook.categories[k].name))]
    /\ UNCHANGED <<hookVars, serviceVars, syncVars, categoryVars, formVars, validateVars, listVars, txnVars,
                   pendingSync, tasks>>

\* user A with the default 'Other' and the custom category 'a', loaded by the
\* hook, and one expense filed under 'a'
StartCategories ==
  [NoCategories EXCEPT ![1] = Some(CategoryDoc(1, OtherName, TRUE, "A")),
                       ![2] = Some(CategoryDoc(2, CustomName, FALSE, "A"))]

InitCategory ==
  /\ call = IdleCall
  /\ res = NotCalled
  /\ incomeHook = InitialHook
  /\ expenseHook = InitialHook
  /\ cachedExpenses = <<>>
  /\ filters = NoFilters
  /\ searchQuery = <<>>
  /\ env = DefaultEnv
  /\ remote = [EmptyRemote EXCEPT ![1] = Some(CategorisedExpense(1, CustomName))]
  /\ pendingSync = <<>>
  /\ tasks = <<IdleTask>>
  /\ auth = Some("A")
  /\ form = NewForm
  /\ expenseActions = IdleActions
  /\ remoteCategories = StartCategories
  /\ categoryHook = [categories |-> OrderByName(CategoryDocsIn(StartCategories)),
                     error |-> "null"]
  /\ cachedCategories = OrderByName(CategoryDocsIn(StartCategories))
  /\ categoryCalls = [i \in CategorySlots |-> IdleCategoryCall]
  /\ syncCall = IdleSync
  /\ HooksAtRest
  /\ ServiceAtRest

NextCategory ==
  \/ CreateCategory
  \/ UpdateCategory
  \/ DeleteCategory
  \/ CreateCategoryResolves
  \/ UpdateCategoryResolves
  \/ DeleteCategoryResolves
  \/ CategoryCallFails
  \/ SubmitWithCategory

SpecCategory == InitCategory /\ [][NextCategory]_vars

\* C30: deleteCategory called on a default category, or on an id that is not
\* in the list, returns false, sets an error, makes no remote call and leaves
\* the category list unchanged: a call reaches categoryService.deleteCategory
\* only for a listed category that is not a default one.
C30_DeleteGuards ==
  [][\A i \in CategorySlots :
       (/\ CategoryCallIdle(i)
        /\ categoryCalls'[i] # categoryCalls[i]
        /\ categoryCalls'[i].op = "delete") =>
         IF categoryCalls'[i].pc = "await"
           THEN \E k \in 1..Len(categoryHook.categories) :
                  /\ categoryHook.categories[k].id = categoryCalls'[i].id
                  /\ ~categoryHook.categories[k].isDefault
           ELSE /\ categoryCalls'[i].pc = "ended" /\ ~categoryCalls'[i].ok
                /\ categoryHook'.error \in {"Category not found",
                                             "Cannot delete default categories"}
                /\ categoryHook'.categories = categoryHook.categories
                /\ remoteCategories' = remoteCategories]_vars

\* the delete of the default category was refused and the category is still
\* listed and stored
C30_Witness ==
  /\ \E i \in CategorySlots : categoryCalls[i] = EndedCategoryCall("delete", FALSE)
  /\ categoryHook.error = "Cannot delete default categories"
  /\ \E k \in 1..Len(categoryHook.categories) : categoryHook.categories[k].isDefault
  /\ remoteCategories[1].some /\ remoteCategories[1].v.isDefault

\* C15: when deleteCategory succeeds for a custom category, every expense
\* that was filed under that category has the category 'Other'.
C15_DeletedMovesToOther ==
  [][\A i \in CategorySlots :
       (/\ categoryCalls[i].op = "delete"
        /\ categoryCalls[i].pc = "await"
        /\ categoryCalls'[i].pc = "ended"
        /\ categoryCalls'[i].ok) =>
         \A id \in StorageIds :
           (remote[id].some /\ remote[id].v.category = categoryCalls[i].name) =>
             (remote'[id].some /\ remote'[id].v.category = OtherName)]_vars

\* C16: every stored expense's category is the name of an existing category
\* of its user, or 'Other'.
C16_CategoriesExist ==
  \A expense \in StoredExpenses :
    \/ expense.category = OtherName
    \/ \E category \in CategoriesOf(remoteCategories, expense.userId) :
         category.name = expense.category

\* C17: the names of the categories of the user are pairwise distinct.
C17_DistinctNames ==
  \A a, b \in CategoriesOf(remoteCategories, "A") :
    a.id # b.id => a.name # b.name

\* ---------------------------------------------------------------------------
\* expenseService and the receipts, with the documents of two users
\* ---------------------------------------------------------------------------

\* the user who is not signed in
OtherUser == "B"

\* an expense of the user with the receipts
OwnedExpense(id, userId, receipts) ==
  [SeedExpense EXCEPT !.id = id, !.userId = userId, !.receipts = receipts]

\* what the service is called with
ServiceLabels == {<<"a">>, <<"B">>}
ServiceInputs ==
  [amount : {SeedExpense.amount}, label : ServiceLabels, description : {<<>>},
   category : {"Other"}, date : {Today}]

ServiceReturns(op, id, returned) ==
  serviceCall' = [op |-> op, id |-> id, ok |-> TRUE, returned |-> returned]

\* getExpenses(): the documents with where('userId', '==', userId)
GetExpenses ==
  /\ auth.some
  /\ ServiceReturns("getExpenses", 0, {d \in StoredExpenses : d.userId = auth.v})
  /\ UNCHANGED <<hookVars, receiptStore, syncVars, categoryVars, formVars, validateVars, listVars,
                 txnVars, storageVars>>

\* getExpenseById(id): the document of the id, or null
GetExpenseById ==
  \E id \in StorageIds :
    /\ ServiceReturns("getExpenseById", id,
                      IF remote[id].some THEN {remote[id].v} ELSE {})
    /\ UNCHANGED <<hookVars, receiptStore, syncVars, categoryVars, formVars, validateVars, listVars,
                   txnVars, storageVars>>

\* createExpense(expense): addDoc, then getDoc
CreateExpense ==
  \E id \in FreeIds, data \in ServiceInputs :
    /\ auth.some
    /\ \A other \in FreeIds : id <= other
    /\ remote' = [remote EXCEPT ![id] = Some(NewDocument(id, data, <<>>))]
    /\ ServiceReturns("createExpense", id, {NewDocument(id, data, <<>>)})
    /\ UNCHANGED <<hookVars, receiptStore, syncVars, categoryVars, formVars, validateVars, listVars,
                   txnVars, pendingSync, tasks>>

\* updateExpense({id, ...updateData}): updateDoc of the document of the id,
\* then getDoc
UpdateExpense ==
  \E id \in StorageIds, data \in ServiceInputs :
    /\ auth.some
    /\ remote[id].some
    /\ LET updated == UpdatedDocument(remote[id].v, data, remote[id].v.receipts)
       IN /\ remote' = [remote EXCEPT ![id] = Some(updated)]
          /\ ServiceReturns("updateExpense", id, {updated})
    /\ UNCHANGED <<hookVars, receiptStore, syncVars, categoryVars, formVars, validateVars, listVars,
                   txnVars, pendingSync, tasks>>

\* useExpenseActions.deleteExpense(id): expenseService.deleteExpense, which is
\* deleteDoc of the document of the id
DeleteExpense ==
  \E id \in StorageIds :
    /\ remote' = [remote EXCEPT ![id] = None]
    /\ ServiceReturns("deleteExpense", id, {})
    /\ UNCHANGED <<hookVars, receiptStore, syncVars, categoryVars, formVars, validateVars, listVars,
                   txnVars, pendingSync, tasks>>

\* the call of the service throws
ServiceCallFails ==
  \E op \in {"getExpenses", "getExpenseById", "createExpense", "updateExpense",
             "deleteExpense"} :
    /\ serviceCall' = [op |-> op, id |-> 0, ok |-> FALSE, returned |-> {}]
    /\ UNCHANGED <<hookVars, receiptStore, syncVars, categoryVars, formVars, validateVars, listVars,
                   txnVars, storageVars>>

\* validateReceiptFile(file)
MaxReceiptSize == 10 * 1024 * 1024
AllowedReceiptTypes == {"image/jpeg", "image/jpg", "image/png", "application/pdf"}
ValidateReceiptFile(file) ==
  IF file.size > MaxReceiptSize
    THEN Invalid(<<"File size cannot exceed 10MB">>)
  ELSE IF file.type \notin AllowedReceiptTypes
    THEN Invalid(<<"File must be JPG, PNG, JPEG, or PDF format">>)
  ELSE Valid

\* the files the pickers of the receipt manager hand over
ReceiptSizes == {MaxReceiptSize, MaxReceiptSize + 1}
ReceiptTypes == {"image/png", "application/pdf", "image/gif"}
ReceiptFiles == [size : ReceiptSizes, type : ReceiptTypes]

\* the names of the blobs
ReceiptIds == {"r1", "r2", "r3"}

\* a receipt as the documents and the form hold it
Receipt(id, size, type) == [id |-> id, size |-> size, mimeType |-> type]

\* compressImage(file): a file that is not an image comes back as it is; an
\* image is drawn again, with a size the canvas decides
CompressedSizes(file) ==
  IF file.type \in {"image/png", "image/gif"}
    THEN {size \in ReceiptSizes : size <= file.size}
    ELSE {file.size}

UploadFailed == "Failed to upload receipts. Please try again."

\* addReceipts([file]): uploadMultipleReceipts compresses and uploads the
\* file, the receipt joins the form
AddReceipts ==
  \E file \in ReceiptFiles, id \in ReceiptIds \ receiptStore :
    \E size \in CompressedSizes(file) :
      /\ receiptStore' = receiptStore \cup {id}
      /\ form' = [form EXCEPT !.receipts = Append(form.receipts, Receipt(id, size, file.type))]
      /\ UNCHANGED <<hookVars, serviceCall, syncVars, categoryVars, auth, expenseActions, validateVars,
                     listVars, txnVars, storageVars>>

\* addReceipts([file]): the upload throws, the catch block sets the error
AddReceiptsFails ==
  /\ form' = [form EXCEPT !.general = UploadFailed]
  /\ UNCHANGED <<hookVars, serviceVars, syncVars, categoryVars, auth, expenseActions, validateVars,
                 listVars, txnVars, storageVars>>

\* removeReceipt(receiptId) of the form: receiptService.deleteReceipt, then the
\* receipt leaves the form
RemoveReceipt ==
  \E receiptId \in receiptStore :
    /\ receiptStore' = receiptStore \ {receiptId}
    /\ form' = [form EXCEPT !.receipts =
                  SelectSeq(form.receipts, LAMBDA r : r.id # receiptId)]
    /\ UNCHANGED <<hookVars, serviceCall, syncVars, categoryVars, auth, expenseActions, validateVars,
                   listVars, txnVars, storageVars>>

\* user A is signed in; A and B each own an expense with one receipt
InitService ==
  /\ call = IdleCall
  /\ res = NotCalled
  /\ incomeHook = InitialHook
  /\ expenseHook = InitialHook
  /\ cachedExpenses = <<>>
  /\ filters = NoFilters
  /\ searchQuery = <<>>
  /\ env = DefaultEnv
  /\ remote = [EmptyRemote EXCEPT ![1] = Some(OwnedExpense(1, "A", <<Receipt("r1", 1024, "image/png")>>)),
                                  ![2] = Some(OwnedExpense(2, OtherUser, <<Receipt("r2", 1024, "image/png")>>))]
  /\ pendingSync = <<>>
  /\ tasks = <<IdleTask>>
  /\ auth = Some("A")
  /\ form = NewForm
  /\ expenseActions = IdleActions
  /\ CategoriesAtRest
  /\ receiptStore = {"r1", "r2"}
  /\ serviceCall = NoServiceCall
  /\ syncCall = IdleSync
  /\ HooksAtRest

NextService ==
  \/ GetExpenses
  \/ GetExpenseById
  \/ CreateExpense
  \/ UpdateExpense
  \/ DeleteExpense
  \/ ServiceCallFails
  \/ RemoveReceipt

SpecService == InitService /\ [][NextService]_vars

\* C18: when deleteExpense(id) succeeds for an expense that has receipts,
\* neither the document nor any of its receipt blobs remains in remote
\* storage.
C18_HardDelete ==
  [][\A id \in StorageIds :
       (/\ serviceCall'.op = "deleteExpense" /\ serviceCall'.id = id /\ serviceCall'.ok
        /\ remote[id].some
        /\ remote[id].v.receipts # <<>>
        /\ remote' # remote) =>
         /\ ~remote'[id].some
         /\ \A k \in 1..Len(remote[id].v.receipts) :
              remote[id].v.receipts[k].id \notin receiptStore']_vars

\* C19: while a user is signed in, no operation of the service returns,
\* modifies or deletes a document of another user, and no operation changes
\* the userId of an existing document.
C19_OwnerScoped ==
  [][/\ \A id \in StorageIds :
          (remote[id].some /\ remote[id].v.userId # auth.v) => remote'[id] = remote[id]
     /\ serviceCall' # serviceCall =>
          \A d \in serviceCall'.returned : d.userId = auth.v
     /\ \A id \in StorageIds :
          (remote[id].some /\ remote'[id].some) =>
            remote'[id].v.userId = remote[id].v.userId]_vars

\* the form of a new expense, nothing uploaded yet
InitReceipts ==
  /\ call = IdleCall
  /\ res = NotCalled
  /\ incomeHook = InitialHook
  /\ expenseHook = InitialHook
  /\ cachedExpenses = <<>>
  /\ filters = NoFilters
  /\ searchQuery = <<>>
  /\ env = DefaultEnv
  /\ remote = EmptyRemote
  /\ pendingSync = <<>>
  /\ tasks = <<IdleTask>>
  /\ auth = Some("A")
  /\ form = NewForm
  /\ expenseActions = IdleActions
  /\ CategoriesAtRest
  /\ syncCall = IdleSync
  /\ HooksAtRest
  /\ ServiceAtRest

NextReceipts ==
  \/ AddReceipts
  \/ AddReceiptsFails
  \/ RemoveReceipt

SpecReceipts == InitReceipts /\ [][NextReceipts]_vars

\* C21: every receipt that addReceipts uploaded and attached has a size of at
\* most 10 MB and one of the allowed MIME types.
C21_ReceiptLimits ==
  \A k \in 1..Len(form.receipts) :
    ValidateReceiptFile([size |-> form.receipts[k].size,
                         type |-> form.receipts[k].mimeType]).isValid

\* ---------------------------------------------------------------------------
\* Whole-record validation: validateExpenseForm and validateIncome
\* ---------------------------------------------------------------------------

\* income validateLabel(label): the list of errors
ValidateLabelIncomeErrors(label) ==
  IF label = <<>> \/ Len(Trim(label)) = 0 THEN <<"Label is required">>
  ELSE IF Len(label) > LABEL_MAX_LENGTH THEN <<"Label cannot exceed 26 characters">>
  ELSE <<>>

\* income validateDescription(description): the list of errors
ValidateDescriptionIncomeErrors(description) ==
  IF description # <<>> /\ Trim(description) # <<>>
       /\ WordCount(Trim(description)) > DESCRIPTION_MAX_WORDS
    THEN <<"Description cannot exceed 50 words">>
    ELSE <<>>

\* the errors of one supporting document
DocumentErrors(file) ==
  (IF file.size > MaxReceiptSize THEN <<"File size cannot exceed 10MB">> ELSE <<>>)
  \o (IF file.type \notin AllowedReceiptTypes
        THEN <<"Only JPG, PNG, and PDF files are allowed">> ELSE <<>>)

\* validateSupportingDocuments(documents): the list of errors
RECURSIVE ValidateSupportingDocuments(_)
ValidateSupportingDocuments(documents) ==
  IF documents = <<>> THEN <<>>
  ELSE DocumentErrors(Head(documents)) \o ValidateSupportingDocuments(Tail(documents))

\* validateIncome(incomeData, existingCategories)
ValidateIncome(incomeData, existingCategories) ==
  LET allErrors ==
        ValidateAmountIncomeErrors(incomeData.amount)
        \o ValidateLabelIncomeErrors(incomeData.label)
        \o ValidateDescriptionIncomeErrors(incomeData.description)
        \o ValidateCategoryErrors(incomeData.category, existingCategories)
        \o ValidateDateIncomeErrors(incomeData.date)
        \o ValidateSupportingDocuments(incomeData.supportingDocuments)
  IN [isValid |-> Len(allErrors) = 0, errors |-> allErrors]

\* the records the two functions are called with
RecordLabels ==
  {<<"a">>, <<" ">>, Repeat("a", LABEL_MAX_LENGTH + 1)}
RecordDescriptions == {<<>>, Words(DESCRIPTION_MAX_WORDS + 1)}
RecordDates == {Today, IsoDate(2007, 12, 31), BadDateText}
ExpenseRecords ==
  [amount : {Num(1, 15, -1), Num(-1, 1, 0), Num(1, 1234, -3)}, label : RecordLabels,
   description : RecordDescriptions, category : {"Other", " "}, date : RecordDates]
IncomeRecords ==
  [amount : {Num(1, 15, -1), Num(-1, 1234, -3), Str(<<>>, NaN)}, label : RecordLabels,
   description : RecordDescriptions, category : {<<"a">>, <<"a", "-">>},
   date : RecordDates,
   supportingDocuments :
     {<<>>, <<[size |-> MaxReceiptSize + 1, type |-> "image/gif"],
              [size |-> MaxReceiptSize, type |-> "image/png"]>>}]
RecordCalls ==
  {[fn |-> "validateExpenseForm", record |-> r, existing |-> <<>>] : r \in ExpenseRecords}
  \cup {[fn |-> "validateIncome", record |-> r, existing |-> ex] :
          r \in IncomeRecords, ex \in {<<>>, << <<"a">> >>}}

InitRecord ==
  /\ call \in RecordCalls
  /\ res = NotCalled
  /\ incomeHook = InitialHook
  /\ expenseHook = InitialHook
  /\ cachedExpenses = <<>>
  /\ filters = NoFilters
  /\ searchQuery = <<>>
  /\ env = DefaultEnv
  /\ remote = EmptyRemote
  /\ pendingSync = <<>>
  /\ tasks = <<IdleTask>>
  /\ FormAtRest
  /\ CategoriesAtRest
  /\ syncCall = IdleSync
  /\ HooksAtRest
  /\ ServiceAtRest

CallValidateExpenseForm ==
  /\ ~res.done
  /\ call.fn = "validateExpenseForm"
  /\ res' = Returned(ValidateExpenseForm(call.record))
  /\ UNCHANGED <<hookVars, serviceVars, syncVars, categoryVars, formVars, call, listVars, txnVars,
                 storageVars>>

CallValidateIncome ==
  /\ ~res.done
  /\ call.fn = "validateIncome"
  /\ res' = Returned(ValidateIncome(call.record, call.existing))
  /\ UNCHANGED <<hookVars, serviceVars, syncVars, categoryVars, formVars, call, listVars, txnVars,
                 storageVars>>

NextRecord ==
  \/ CallValidateExpenseForm
  \/ CallValidateIncome

SpecRecord == InitRecord /\ [][NextRecord]_vars

\* the five checks of an expense record, in their order
ExpenseChecks(expense) ==
  <<ValidateAmountExpense(expense.amount),
    ValidateLabel(expense.label),
    ValidateDescription(expense.description),
    IF BlankCategory(expense.category) THEN Invalid(<<"Category is required">>) ELSE Valid,
    ValidateDateExpense(expense.date)>>

\* the lists of errors of the six checks of an income record
IncomeChecks(income, existing) ==
  <<ValidateAmountIncomeErrors(income.amount),
    ValidateLabelIncomeErrors(income.label),
    ValidateDescriptionIncomeErrors(income.description),
    ValidateCategoryErrors(income.category, existing),
    ValidateDateIncomeErrors(income.date),
    ValidateSupportingDocuments(income.supportingDocuments)>>

RECURSIVE SumOfLengths(_)
SumOfLengths(lists) ==
  IF lists = <<>> THEN 0 ELSE Len(Head(lists)) + SumOfLengths(Tail(lists))

\* C22: validateExpenseForm returns valid exactly when its five checks pass
\* and otherwise the error of the first check that fails, in the order
\* amount, label, description, category, date; validateIncome returns the
\* errors of all failing checks, and isValid exactly when there is none.
C22_RecordValidation ==
  /\ (res.done /\ call.fn = "validateExpenseForm") =>
       LET checks == ExpenseChecks(call.record)
           failing == {i \in 1..Len(checks) : ~checks[i].isValid}
       IN /\ res.isValid <=> failing = {}
          /\ failing # {} =>
               \E first \in failing :
                 /\ \A i \in failing : first <= i
                 /\ res.errors = checks[first].errors
  /\ (res.done /\ call.fn = "validateIncome") =>
       LET checks == IncomeChecks(call.record, call.existing)
       IN /\ res.isValid <=> res.errors = <<>>
          /\ Len(res.errors) = SumOfLengths(checks)
          /\ \A i \in 1..Len(checks) : \A k \in 1..Len(checks[i]) :
               \E j \in 1..Len(res.errors) : res.errors[j] = checks[i][k]

\* an expense whose amount and label both fail: the error is the amount's
C22_Witness ==
  /\ res.done /\ call.fn = "validateExpenseForm"
  /\ ~ValidateAmountExpense(call.record.amount).isValid
  /\ ~ValidateLabel(call.record.label).isValid
  /\ res.errors = ValidateAmountExpense(call.record.amount).errors
  /\ res.errors # ValidateLabel(call.record.label).errors

\* ---------------------------------------------------------------------------
\* useExpenseList over expenseService.getExpenses: the pages of the list
\* ---------------------------------------------------------------------------

\* the where clauses of getExpenses
MatchesQuery(d, userId, f) ==
  /\ d.userId = userId
  /\ (f.categories.some /\ Len(f.categories.v) > 0) => SeqContains(f.categories.v, d.category)
  /\ TruthyDate(f.dateFrom) => ~DateBefore(d.date, f.dateFrom.v)
  /\ TruthyDate(f.dateTo) => ~DateBefore(f.dateTo.v, d.date)
  /\ f.amountMin.some => d.amount >= f.amountMin.v
  /\ f.amountMax.some => d.amount <= f.amountMax.v

\* orderBy('date', 'desc'): documents of one date by descending id
OrderByDateDesc(docs) ==
  CHOOSE r \in [1..Cardinality(docs) -> docs] :
    /\ \A i, j \in 1..Len(r) : i # j => r[i] # r[j]
    /\ \A i \in 1..(Len(r) - 1) :
         \/ DateBefore(r[i + 1].date, r[i].date)
         \/ r[i + 1].date = r[i].date /\ r[i + 1].id < r[i].id

\* the whole result of the query without its limit
QueryResult(f) ==
  OrderByDateDesc({d \in StoredExpenses : auth.some /\ MatchesQuery(d, auth.v, f)})

\* expenseService.getExpenses(filters, sort, page, limit): the constraints are
\* the where clauses, the order and firestoreLimit(limit); page is in none of them
GetExpensesPage(f, page, limit) ==
  LET all == QueryResult(f)
      expenses == SubSeq(all, 1, IF Len(all) < limit THEN Len(all) ELSE limit)
  IN [expenses |-> expenses,
      totalCount |-> Cardinality({d \in StoredExpenses : d.userId = auth.v}),
      hasMore |-> Len(expenses) = limit]

PageDoc(id, date, category, userId) ==
  [id |-> id, amount |-> 40, label |-> <<"B">>, description |-> <<>>,
   category |-> category, date |-> date, receipts |-> <<>>, userId |-> userId]

\* the collections the list is loaded from: at most one document per id, on
\* different days
PageCollections ==
  {[id \in StorageIds |-> IF id = 1 THEN first ELSE second] :
     first \in {None} \cup {Some(PageDoc(1, date, category, userId)) :
                  date \in {IsoDate(2024, 1, 1), IsoDate(2024, 1, 3)},
                  category \in {"Food", "Other"}, userId \in {"A", OtherUser}},
     second \in {None} \cup {Some(PageDoc(2, IsoDate(2024, 1, 2), category, "A")) :
                   category \in {"Food", "Other"}}}

InitPages ==
  /\ call = IdleCall
  /\ res = NotCalled
  /\ incomeHook = InitialHook
  /\ expenseHook = InitialHook
  /\ cachedExpenses = <<>>
  /\ filters = NoFilters
  /\ searchQuery = <<>>
  /\ env = DefaultEnv
  /\ remote \in PageCollections
  /\ pendingSync = <<>>
  /\ tasks = <<IdleTask>>
  /\ auth = Some("A")
  /\ form = NewForm
  /\ expenseActions = IdleActions
  /\ CategoriesAtRest
  /\ syncCall = IdleSync
  /\ HooksAtRest
  /\ ServiceAtRest

\* loadExpenses(1, false) from its first line to its last
LoadFirstPage ==
  \E outcome \in Outcomes, readOk \in BOOLEAN :
    LET result == GetExpensesPage(filters, 1, PageSize)
    IN /\ LoadExpensesStep(1, FALSE, outcome, result.expenses, result.totalCount, readOk)
       /\ UNCHANGED <<hookVars, serviceVars, syncVars, categoryVars, formVars, incomeHook,
                      validateVars, txnVars, storageVars>>

\* loadMore(): loadExpenses(currentPage + 1, true)
LoadMore ==
  \E outcome \in {"ok", "fetchFail"} :
    LET result == GetExpensesPage(filters, expenseHook.currentPage + 1, PageSize)
    IN /\ expenseHook.hasMore
       /\ expenseHook.currentPage < MaxPage
       /\ LoadExpensesStep(expenseHook.currentPage + 1, TRUE, outcome, result.expenses,
                           result.totalCount, TRUE)
       /\ UNCHANGED <<hookVars, serviceVars, syncVars, categoryVars, formVars, incomeHook,
                      validateVars, txnVars, storageVars>>

NextPages ==
  \/ LoadFirstPage
  \/ LoadMore

SpecPages == InitPages /\ [][NextPages]_vars

\* C24: expenses are loaded in batches of pageSize: after the first load and
\* k-1 successful loadMore calls the list holds the first k*pageSize records
\* of the query result in query order, no record repeated.
C24_Batches ==
  [][(expenseHook' # expenseHook /\ expenseHook'.error = NoError) =>
       LET all == QueryResult(filters)
           wanted == expenseHook'.currentPage * PageSize
           n == IF Len(all) < wanted THEN Len(all) ELSE wanted
           items == expenseHook'.items
       IN /\ items = SubSeq(all, 1, n)
          /\ \A i, j \in 1..Len(items) : i # j => items[i].id # items[j].id]_vars

\* ---------------------------------------------------------------------------
\* useExpenseActions.deleteExpense and bulkDeleteExpenses on the expense list
\* screen: onExpenseDeleted is removeExpenseFromList
\* ---------------------------------------------------------------------------

\* what a rejected deleteDoc carries as err.message
DeleteErrorMessages == {"", "permission-denied"}

DeleteCallIdle == deletion.pc \in {"idle", "returned"}

\* deleteExpense(id) up to its await: setIsDeleting(expenseId), setError(null)
DeleteExpenseStarts ==
  \E id \in StorageIds :
    /\ DeleteCallIdle
    /\ deletion' = [IdleDeletion EXCEPT !.op = "deleteExpense", !.pc = "deleting",
                                        !.ids = <<id>>, !.k = 1, !.isDeleting = id]
    /\ UNCHANGED <<fetchVars, serviceVars, syncVars, categoryVars, formVars, validateVars,
                   listVars, txnVars, storageVars>>

\* the try block of deleteExpense after the await, and the finally block
DeleteSucceeded(d, id) ==
  [d EXCEPT !.pc = "returned", !.attempts = Append(d.attempts, [id |-> id, ok |-> TRUE]),
            !.deleted = Append(d.deleted, id), !.returned = "true", !.isDeleting = 0]

\* a catch block that leaves isDeleting set
MutDeleteFailed(d, id, message) ==
  LET errorMessage == IF message = "" THEN "Failed to delete expense" ELSE message
  IN [d EXCEPT !.pc = "returned", !.attempts = Append(d.attempts, [id |-> id, ok |-> FALSE]),
               !.error = errorMessage, !.reported = Append(d.reported, errorMessage),
               !.returned = "false"]

\* the catch block of deleteExpense, and the finally block
DeleteFailed(d, id, message) ==
  LET errorMessage == IF message = "" THEN "Failed to delete expense" ELSE message
  IN [d EXCEPT !.pc = "returned", !.attempts = Append(d.attempts, [id |-> id, ok |-> FALSE]),
               !.error = errorMessage, !.reported = Append(d.reported, errorMessage),
               !.returned = "false", !.isDeleting = 0]

\* expenseService.deleteExpense resolves: the document is gone, the list hook
\* removes the expense
DeleteExpenseResolves ==
  /\ deletion.pc = "deleting"
  /\ LET id == deletion.ids[1]
     IN /\ remote' = [remote EXCEPT ![id] = None]
        /\ expenseHook' = RemoveFromList(expenseHook, id)
        /\ deletion' = DeleteSucceeded(deletion, id)
  /\ UNCHANGED <<fetchVars, serviceVars, syncVars, categoryVars, formVars, validateVars,
                 incomeHook, cachedExpenses, txnVars, pendingSync, tasks>>

\* expenseService.deleteExpense rejects
DeleteExpenseRejects ==
  \E message \in DeleteErrorMessages :
    /\ deletion.pc = "deleting"
    /\ deletion' = DeleteFailed(deletion, deletion.ids[1], message)
    /\ UNCHANGED <<fetchVars, serviceVars, syncVars, categoryVars, formVars, validateVars,
                   listVars, txnVars, storageVars>>

\* the selections of the screen: ids without repetition
BulkSelections ==
  {ids \in SeqsUpTo(StorageIds, Cardinality(StorageIds)) :
     \A i, j \in 1..Len(ids) : i # j => ids[i] # ids[j]}

\* bulkDeleteExpenses(expenseIds) up to the loop
BulkDeleteStarts ==
  \E ids \in BulkSelections :
    /\ DeleteCallIdle
    /\ deletion' = [IdleDeletion EXCEPT !.op = "bulkDeleteExpenses", !.pc = "bulk",
                                        !.ids = ids, !.k = 1,
                                        !.isPerformingBulkAction = TRUE]
    /\ UNCHANGED <<fetchVars, serviceVars, syncVars, categoryVars, formVars, validateVars,
                   listVars, txnVars, storageVars>>

\* the inner try block for one id
BulkSucceeded(d, id) ==
  [d EXCEPT !.attempts = Append(d.attempts, [id |-> id, ok |-> TRUE]),
            !.success = Append(d.success, id), !.deleted = Append(d.deleted, id),
            !.k = d.k + 1]

\* an inner catch block that gives the loop up
MutBulkFailed(d, id) ==
  [d EXCEPT !.attempts = Append(d.attempts, [id |-> id, ok |-> FALSE]),
            !.failed = Append(d.failed, id), !.k = Len(d.ids) + 1]

\* the inner catch block for one id
BulkFailed(d, id) ==
  [d EXCEPT !.attempts = Append(d.attempts, [id |-> id, ok |-> FALSE]),
            !.failed = Append(d.failed, id), !.k = d.k + 1]

\* the loop of bulkDeleteExpenses: deleteExpense of the next id resolves
BulkDeleteNextResolves ==
  /\ deletion.pc = "bulk" /\ deletion.k <= Len(deletion.ids)
  /\ LET id == deletion.ids[deletion.k]
     IN /\ remote' = [remote EXCEPT ![id] = None]
        /\ expenseHook' = RemoveFromList(expenseHook, id)
        /\ deletion' = BulkSucceeded(deletion, id)
  /\ UNCHANGED <<fetchVars, serviceVars, syncVars, categoryVars, formVars, validateVars,
                 incomeHook, cachedExpenses, txnVars, pendingSync, tasks>>

\* the loop of bulkDeleteExpenses: deleteExpense of the next id rejects
BulkDeleteNextRejects ==
  /\ deletion.pc = "bulk" /\ deletion.k <= Len(deletion.ids)
  /\ deletion' = BulkFailed(deletion, deletion.ids[deletion.k])
  /\ UNCHANGED <<fetchVars, serviceVars, syncVars, categoryVars, formVars, validateVars,
                 listVars, txnVars, storageVars>>

\* `Failed to delete ${failed.length} expense(s)`
BulkErrorMessage(n) == <<"Failed to delete", n, "expense(s)">>

\* bulkDeleteExpenses after the loop: the messages, the finally block, the return
BulkDeleteReturns ==
  /\ deletion.pc = "bulk" /\ deletion.k > Len(deletion.ids)
  /\ deletion' =
       IF Len(deletion.failed) > 0
         THEN [deletion EXCEPT
                 !.pc = "returned", !.returned = "lists",
                 !.error = BulkErrorMessage(Len(deletion.failed)),
                 !.reported = Append(deletion.reported,
                                     BulkErrorMessage(Len(deletion.failed))),
                 !.isPerformingBulkAction = FALSE]
         ELSE [deletion EXCEPT !.pc = "returned", !.returned = "lists",
                               !.isPerformingBulkAction = FALSE]
  /\ UNCHANGED <<fetchVars, serviceVars, syncVars, categoryVars, formVars, validateVars,
                 listVars, txnVars, storageVars>>

\* the screen shows the two expenses of the collection
InitDelete ==
  /\ call = IdleCall
  /\ res = NotCalled
  /\ incomeHook = InitialHook
  /\ expenseHook = HookHolding(<<PageDoc(2, IsoDate(2024, 1, 2), "Food", "A"),
                                 PageDoc(1, IsoDate(2024, 1, 1), "Other", "A")>>)
  /\ cachedExpenses = <<>>
  /\ filters = NoFilters
  /\ searchQuery = <<>>
  /\ env = DefaultEnv
  /\ remote = [id \in StorageIds |->
                 IF id = 1 THEN Some(PageDoc(1, IsoDate(2024, 1, 1), "Other", "A"))
                 ELSE Some(PageDoc(2, IsoDate(2024, 1, 2), "Food", "A"))]
  /\ pendingSync = <<>>
  /\ tasks = <<IdleTask>>
  /\ auth = Some("A")
  /\ form = NewForm
  /\ expenseActions = IdleActions
  /\ CategoriesAtRest
  /\ syncCall = IdleSync
  /\ HooksAtRest
  /\ ServiceAtRest

NextDelete ==
  \/ DeleteExpenseStarts
  \/ DeleteExpenseResolves
  \/ DeleteExpenseRejects
  \/ BulkDeleteStarts
  \/ BulkDeleteNextResolves
  \/ BulkDeleteNextRejects
  \/ BulkDeleteReturns

SpecDelete == InitDelete /\ [][NextDelete]_vars

\* C26: when deleteExpense fails remotely the expense stays in the list and
\* totalCount is unchanged (onExpenseDeleted is not called), the error message
\* is stored and passed to onError, the call returns false and isDeleting is
\* null again.
C26_FailedDelete ==
  [][(/\ deletion.op = "deleteExpense" /\ deletion.pc = "deleting"
      /\ deletion'.attempts = <<[id |-> deletion.ids[1], ok |-> FALSE]>>) =>
       /\ expenseHook'.items = expenseHook.items
       /\ expenseHook'.totalCount = expenseHook.totalCount
       /\ deletion'.deleted = <<>>
       /\ deletion'.error # "null"
       /\ deletion'.reported = <<deletion'.error>>
       /\ deletion'.returned = "false"
       /\ deletion'.isDeleting = 0]_vars

\* the delete of expense 2 was rejected without a message: the list still
\* holds both expenses and the hook holds the fallback message
C26_Witness ==
  /\ deletion.op = "deleteExpense" /\ deletion.pc = "returned"
  /\ deletion.attempts = <<[id |-> 2, ok |-> FALSE]>>
  /\ deletion.error = "Failed to delete expense"
  /\ deletion.returned = "false"
  /\ Len(expenseHook.items) = 2 /\ expenseHook.totalCount = 2
  /\ remote[2].some

\* the ids of the records of a list
NamesOfIds(items) == [i \in 1..Len(items) |-> items[i].id]

\* the ids of the attempts with the outcome
AttemptedIds(attempts, ok) ==
  LET chosen == SelectSeq(attempts, LAMBDA a : a.ok = ok)
  IN [i \in 1..Len(chosen) |-> chosen[i].id]

\* C29: bulkDeleteExpenses attempts every id in the given order, also after a
\* failure, and returns success and failed lists that partition the ids: an
\* id is in success exactly when its remote delete succeeded, and then
\* onExpenseDeleted was called for it, and in failed otherwise;
\* isPerformingBulkAction is false when it returns.
C29_BulkDelete ==
  (deletion.op = "bulkDeleteExpenses" /\ deletion.pc = "returned") =>
    /\ [i \in 1..Len(deletion.attempts) |-> deletion.attempts[i].id] = deletion.ids
    /\ deletion.success = AttemptedIds(deletion.attempts, TRUE)
    /\ deletion.failed = AttemptedIds(deletion.attempts, FALSE)
    /\ \A id \in StorageIds :
         /\ SeqContains(deletion.ids, id) =>
              (SeqContains(deletion.success, id) <=> ~SeqContains(deletion.failed, id))
         /\ ~SeqContains(deletion.ids, id) =>
              ~SeqContains(deletion.success, id) /\ ~SeqContains(deletion.failed, id)
    /\ deletion.deleted = deletion.success
    /\ \A i \in 1..Len(deletion.success) :
         ~SeqContains(NamesOfIds(expenseHook.items), deletion.success[i])
    /\ ~deletion.isPerformingBulkAction

\* the first delete failed and the second was still made and succeeded
C29_Witness ==
  /\ deletion.op = "bulkDeleteExpenses" /\ deletion.pc = "returned"
  /\ deletion.ids = <<2, 1>>
  /\ deletion.attempts = <<[id |-> 2, ok |-> FALSE], [id |-> 1, ok |-> TRUE]>>
  /\ deletion.success = <<1>> /\ deletion.failed = <<2>>
  /\ remote[2].some /\ ~remote[1].some
  /\ ~deletion.isPerformingBulkAction

\* ---------------------------------------------------------------------------
\* useExpenseList: the effects that load the list, with their calls in flight
\* ---------------------------------------------------------------------------

\* loadExpenses(1, false) awaiting getExpenses with the filters of its closure,
\* and loadCachedFilters awaiting getCachedFilters
LoadCall(f) == [op |-> "loadExpenses", filters |-> f]
MountCall == [op |-> "loadCachedFilters", filters |-> NoFilters]

\* the filters the screen applies
ExpenseFilterChoices ==
  {NoFilters, [NoFilters EXCEPT !.categories = Some(<<"Food">>)],
   [NoFilters EXCEPT !.categories = Some(<<"Other">>)]}

\* the effect on [filters, sort]: loadExpenses(1, false) up to its await
StartsLoading(hook) == [hook EXCEPT !.error = NoError]

\* after the mount: both effects have run
InitRace ==
  /\ call = IdleCall
  /\ res = NotCalled
  /\ incomeHook = InitialHook
  /\ expenseHook = InitialHook
  /\ cachedExpenses = <<>>
  /\ filters = NoFilters
  /\ searchQuery = <<>>
  /\ env = DefaultEnv
  /\ remote \in PageCollections
  /\ pendingSync = <<>>
  /\ tasks = <<IdleTask>>
  /\ auth = Some("A")
  /\ form = NewForm
  /\ expenseActions = IdleActions
  /\ CategoriesAtRest
  /\ syncCall = IdleSync
  /\ fetches = {LoadCall(NoFilters), MountCall}
  /\ cachedFilters \in {None} \cup {Some(f) : f \in ExpenseFilterChoices}
  /\ deletion = IdleDeletion
  /\ ServiceAtRest

\* applyFilters(newFilters): setFilters, setCurrentPage(1), then the effect
ApplyExpenseFilters ==
  \E newFilters \in ExpenseFilterChoices :
    /\ filters' = newFilters
    /\ expenseHook' = StartsLoading([expenseHook EXCEPT !.currentPage = 1])
    /\ fetches' = fetches \cup {LoadCall(newFilters)}
    /\ UNCHANGED <<cachedFilters, deletion, serviceVars, syncVars, categoryVars, formVars,
                   validateVars, incomeHook, cachedExpenses, searchQuery, env, storageVars>>

\* loadCachedFilters after its await: setFilters(cachedFilters),
\* setSearchQuery(cachedFilters.searchQuery || ''), then the effect
CachedFiltersLoaded ==
  /\ MountCall \in fetches
  /\ IF cachedFilters.some
       THEN /\ filters' = cachedFilters.v
            /\ searchQuery' = IF TruthyText(cachedFilters.v.searchQuery)
                                THEN cachedFilters.v.searchQuery.v ELSE <<>>
            /\ expenseHook' = StartsLoading(expenseHook)
            /\ fetches' = (fetches \ {MountCall}) \cup {LoadCall(cachedFilters.v)}
       ELSE /\ fetches' = fetches \ {MountCall}
            /\ UNCHANGED <<filters, searchQuery, expenseHook>>
  /\ UNCHANGED <<cachedFilters, deletion, serviceVars, syncVars, categoryVars, formVars,
                 validateVars, incomeHook, cachedExpenses, env, storageVars>>

\* loadExpenses(1, false) after its await: getExpenses answered, the page is
\* set and then cached with the filters of the call
FetchResolves ==
  \E c \in fetches :
    /\ c.op = "loadExpenses"
    /\ LET result == GetExpensesPage(c.filters, 1, PageSize)
       IN /\ expenseHook' =
               [Loaded(expenseHook, result.expenses, result.totalCount, 1, FALSE)
                  EXCEPT !.error = expenseHook.error]
          /\ cachedExpenses' = result.expenses
    /\ cachedFilters' = Some(c.filters)
    /\ fetches' = fetches \ {c}
    /\ UNCHANGED <<deletion, serviceVars, syncVars, categoryVars, formVars, validateVars,
                   incomeHook, txnVars, storageVars>>

\* loadExpenses(1, false) after its await: getExpenses threw
FetchRejects ==
  \E c \in fetches :
    /\ c.op = "loadExpenses"
    /\ expenseHook' = LoadFailed(expenseHook, FetchFailed, 1, cachedExpenses)
    /\ fetches' = fetches \ {c}
    /\ UNCHANGED <<cachedFilters, deletion, serviceVars, syncVars, categoryVars, formVars,
                   validateVars, incomeHook, cachedExpenses, txnVars, storageVars>>

NextRace ==
  \/ ApplyExpenseFilters
  \/ CachedFiltersLoaded
  \/ FetchResolves
  \/ FetchRejects

SpecRace == InitRace /\ [][NextRace]_vars

\* C27: when the filters change while an earlier fetch is in flight (the
\* reload of the cached filters on mount included), then once every fetch has
\* completed the list shown is the result of the fetch for the latest
\* filters: the answer to an older request never replaces it.
C27_LatestFiltersShown ==
  (fetches = {} /\ expenseHook.error = NoError) =>
    expenseHook.items = GetExpensesPage(filters, 1, PageSize).expenses

====
